---- MODULE Spec2Model ----
(***************************************************************************)
(* Model of the hirecre ingestion pipeline (scripts/sync-greenhouse.mjs)   *)
(* and of the saved-search alert cycle (scripts/run-saved-search-alerts)   *)
(* in its four committed variants.                                         *)
(*                                                                         *)
(* JavaScript strings are modelled as sequences of one-character strings,  *)
(* so that trimming, concatenation and comparison are computed, not        *)
(* assumed.  null/undefined is the distinguished sequence Null.            *)
(***************************************************************************)
EXTENDS Integers, Sequences, FiniteSets, Bags, TLC

\* ------------------------------------------------------------------------
\* Bounds of the model (not program constants)
\* ------------------------------------------------------------------------
MaxClock == 3
MaxBatch == 2
MaxSegments == 3

\* ------------------------------------------------------------------------
\* Strings
\* ------------------------------------------------------------------------
Null == <<"<null>">>

RECURSIVE TrimLeft(_)
TrimLeft(s) == IF s # <<>> /\ Head(s) = " " THEN TrimLeft(Tail(s)) ELSE s

RECURSIVE TrimRight(_)
TrimRight(s) ==
  IF s # <<>> /\ s[Len(s)] = " " THEN TrimRight(SubSeq(s, 1, Len(s) - 1)) ELSE s

Trim(s) == TrimRight(TrimLeft(s))

\* part_014: function normalize(s) { return (s || "").toString().trim(); }
normalize(s) == IF s = Null THEN <<>> ELSE Trim(s)

LowerOf ==
  "A" :> "a" @@ "B" :> "b" @@ "C" :> "c" @@ "D" :> "d" @@ "E" :> "e" @@ "F" :> "f" @@
  "G" :> "g" @@ "H" :> "h" @@ "I" :> "i" @@ "J" :> "j" @@ "K" :> "k" @@ "L" :> "l" @@
  "M" :> "m" @@ "N" :> "n" @@ "O" :> "o" @@ "P" :> "p" @@ "Q" :> "q" @@ "R" :> "r" @@
  "S" :> "s" @@ "T" :> "t" @@ "U" :> "u" @@ "V" :> "v" @@ "W" :> "w" @@ "X" :> "x" @@
  "Y" :> "y" @@ "Z" :> "z"

UpperOf ==
  "a" :> "A" @@ "b" :> "B" @@ "c" :> "C" @@ "d" :> "D" @@ "e" :> "E" @@ "f" :> "F" @@
  "g" :> "G" @@ "h" :> "H" @@ "i" :> "I" @@ "j" :> "J" @@ "k" :> "K" @@ "l" :> "L" @@
  "m" :> "M" @@ "n" :> "N" @@ "o" :> "O" @@ "p" :> "P" @@ "q" :> "Q" @@ "r" :> "R" @@
  "s" :> "S" @@ "t" :> "T" @@ "u" :> "U" @@ "v" :> "V" @@ "w" :> "W" @@ "x" :> "X" @@
  "y" :> "Y" @@ "z" :> "Z"

ToLowerChar(c) == IF c \in DOMAIN LowerOf THEN LowerOf[c] ELSE c

ToUpperChar(c) == IF c \in DOMAIN UpperOf THEN UpperOf[c] ELSE c

ToLower(s) == [i \in 1..Len(s) |-> ToLowerChar(s[i])]

ToUpper(s) == [i \in 1..Len(s) |-> ToUpperChar(s[i])]

\* String.prototype.includes
Includes(hay, needle) ==
  \E i \in 0..(Len(hay) - Len(needle)) :
     SubSeq(hay, i + 1, i + Len(needle)) = needle

\* ------------------------------------------------------------------------
\* Ingestion: scripts/sync-greenhouse.mjs (current version, part_014)
\* ------------------------------------------------------------------------
EXCLUDE_TITLE_KEYWORDS == {
    <<"j","a","n","i","t","o","r">>,
    <<"c","l","e","a","n","i","n","g">>,
    <<"p","r","o","p","e","r","t","y"," ","m","a","i","n","t","e","n","a","n","c","e">>,
    <<"m","a","i","n","t","e","n","a","n","c","e">>,
    <<"m","a","i","n","t","e","n","a","n","c","e"," ","t","e","c","h","n","i","c","i","a","n">>,
    <<"f","a","c","i","l","i","t","i","e","s">>,
    <<"f","a","c","i","l","i","t","i","e","s"," ","m","a","n","a","g","e","r">>,
    <<"r","e","g","i","o","n","a","l"," ","f","a","c","i","l","i","t","i","e","s">>,
    <<"e","n","g","i","n","e","e","r","i","n","g">>,
    <<"e","n","g","i","n","e","e","r">>,
    <<"i","t">>,
    <<"i","n","f","o","r","m","a","t","i","o","n"," ","t","e","c","h","n","o","l","o","g","y">>,
    <<"h","e","l","p","d","e","s","k">>,
    <<"d","e","s","k","t","o","p"," ","s","u","p","p","o","r","t">>,
    <<"n","e","t","w","o","r","k">>,
    <<"l","i","c","e","n","s","e","d"," ","r","e","a","l"," ","e","s","t","a","t","e"," ","a","g","e","n","t">>,
    <<"r","e","a","l"," ","e","s","t","a","t","e"," ","a","g","e","n","t">>
  }

shouldExcludeTitle(title) ==
  LET t == ToLower(normalize(title))
  IN  IF t = <<>> THEN FALSE
      ELSE \E kw \in EXCLUDE_TITLE_KEYWORDS : Includes(t, ToLower(kw))

\* `${a}::${b || c}`
buildFingerprint(source, source_job_id, url) ==
  LET a == normalize(source)
      b == normalize(source_job_id)
      c == normalize(url)
  IN  a \o <<":", ":">> \o (IF b # <<>> THEN b ELSE c)

GREENHOUSE == <<"g", "h">>   \* the literal "greenhouse"

NoTime == 0                  \* a null timestamp

\* -------------------- location parsing --------------------
Digits == {"0", "1", "2", "3", "4", "5", "6", "7", "8", "9"}

UpperLetters == DOMAIN LowerOf

\* \w of a regular expression
WordChars == DOMAIN LowerOf \cup DOMAIN UpperOf \cup Digits \cup {"_"}

\* \b between s[i] and s[i + 1], for 0 <= i <= Len(s)
Boundary(s, i) ==
  (i >= 1 /\ s[i] \in WordChars) # (i < Len(s) /\ s[i + 1] \in WordChars)

\* /^re$/ on s[a..b] for re = \d{n}
AllDigits(s, a, b) == \A k \in a..b : s[k] \in Digits

STATE_ABBRS == {
    <<"A", "L">>, <<"A", "K">>, <<"A", "Z">>, <<"A", "R">>, <<"C", "A">>, <<"C", "O">>,
    <<"C", "T">>, <<"D", "E">>, <<"F", "L">>, <<"G", "A">>, <<"H", "I">>, <<"I", "D">>,
    <<"I", "L">>, <<"I", "N">>, <<"I", "A">>, <<"K", "S">>, <<"K", "Y">>, <<"L", "A">>,
    <<"M", "E">>, <<"M", "D">>, <<"M", "A">>, <<"M", "I">>, <<"M", "N">>, <<"M", "S">>,
    <<"M", "O">>, <<"M", "T">>, <<"N", "E">>, <<"N", "V">>, <<"N", "H">>, <<"N", "J">>,
    <<"N", "M">>, <<"N", "Y">>, <<"N", "C">>, <<"N", "D">>, <<"O", "H">>, <<"O", "K">>,
    <<"O", "R">>, <<"P", "A">>, <<"R", "I">>, <<"S", "C">>, <<"S", "D">>, <<"T", "N">>,
    <<"T", "X">>, <<"U", "T">>, <<"V", "T">>, <<"V", "A">>, <<"W", "A">>, <<"W", "V">>,
    <<"W", "I">>, <<"W", "Y">>, <<"D", "C">>
  }

\* the entries of the Map, in insertion order
STATE_NAME_TO_ABBR == <<
    [name |-> <<"a", "l", "a", "b", "a", "m", "a">>, abbr |-> <<"A", "L">>],
    [name |-> <<"a", "l", "a", "s", "k", "a">>, abbr |-> <<"A", "K">>],
    [name |-> <<"a", "r", "i", "z", "o", "n", "a">>, abbr |-> <<"A", "Z">>],
    [name |-> <<"a", "r", "k", "a", "n", "s", "a", "s">>, abbr |-> <<"A", "R">>],
    [name |-> <<"c", "a", "l", "i", "f", "o", "r", "n", "i", "a">>, abbr |-> <<"C", "A">>],
    [name |-> <<"c", "o", "l", "o", "r", "a", "d", "o">>, abbr |-> <<"C", "O">>],
    [name |-> <<"c", "o", "n", "n", "e", "c", "t", "i", "c", "u", "t">>, abbr |-> <<"C", "T">>],
    [name |-> <<"d", "e", "l", "a", "w", "a", "r", "e">>, abbr |-> <<"D", "E">>],
    [name |-> <<"f", "l", "o", "r", "i", "d", "a">>, abbr |-> <<"F", "L">>],
    [name |-> <<"g", "e", "o", "r", "g", "i", "a">>, abbr |-> <<"G", "A">>],
    [name |-> <<"h", "a", "w", "a", "i", "i">>, abbr |-> <<"H", "I">>],
    [name |-> <<"i", "d", "a", "h", "o">>, abbr |-> <<"I", "D">>],
    [name |-> <<"i", "l", "l", "i", "n", "o", "i", "s">>, abbr |-> <<"I", "L">>],
    [name |-> <<"i", "n", "d", "i", "a", "n", "a">>, abbr |-> <<"I", "N">>],
    [name |-> <<"i", "o", "w", "a">>, abbr |-> <<"I", "A">>],
    [name |-> <<"k", "a", "n", "s", "a", "s">>, abbr |-> <<"K", "S">>],
    [name |-> <<"k", "e", "n", "t", "u", "c", "k", "y">>, abbr |-> <<"K", "Y">>],
    [name |-> <<"l", "o", "u", "i", "s", "i", "a", "n", "a">>, abbr |-> <<"L", "A">>],
    [name |-> <<"m", "a", "i", "n", "e">>, abbr |-> <<"M", "E">>],
    [name |-> <<"m", "a", "r", "y", "l", "a", "n", "d">>, abbr |-> <<"M", "D">>],
    [name |-> <<"m", "a", "s", "s", "a", "c", "h", "u", "s", "e", "t", "t", "s">>, abbr |-> <<"M", "A">>],
    [name |-> <<"m", "i", "c", "h", "i", "g", "a", "n">>, abbr |-> <<"M", "I">>],
    [name |-> <<"m", "i", "n", "n", "e", "s", "o", "t", "a">>, abbr |-> <<"M", "N">>],
    [name |-> <<"m", "i", "s", "s", "i", "s", "s", "i", "p", "p", "i">>, abbr |-> <<"M", "S">>],
    [name |-> <<"m", "i", "s", "s", "o", "u", "r", "i">>, abbr |-> <<"M", "O">>],
    [name |-> <<"m", "o", "n", "t", "a", "n", "a">>, abbr |-> <<"M", "T">>],
    [name |-> <<"n", "e", "b", "r", "a", "s", "k", "a">>, abbr |-> <<"N", "E">>],
    [name |-> <<"n", "e", "v", "a", "d", "a">>, abbr |-> <<"N", "V">>],
    [name |-> <<"n", "e", "w", " ", "h", "a", "m", "p", "s", "h", "i", "r", "e">>, abbr |-> <<"N", "H">>],
    [name |-> <<"n", "e", "w", " ", "j", "e", "r", "s", "e", "y">>, abbr |-> <<"N", "J">>],
    [name |-> <<"n", "e", "w", " ", "m", "e", "x", "i", "c", "o">>, abbr |-> <<"N", "M">>],
    [name |-> <<"n", "e", "w", " ", "y", "o", "r", "k">>, abbr |-> <<"N", "Y">>],
    [name |-> <<"n", "o", "r", "t", "h", " ", "c", "a", "r", "o", "l", "i", "n", "a">>, abbr |-> <<"N", "C">>],
    [name |-> <<"n", "o", "r", "t", "h", " ", "d", "a", "k", "o", "t", "a">>, abbr |-> <<"N", "D">>],
    [name |-> <<"o", "h", "i", "o">>, abbr |-> <<"O", "H">>],
    [name |-> <<"o", "k", "l", "a", "h", "o", "m", "a">>, abbr |-> <<"O", "K">>],
    [name |-> <<"o", "r", "e", "g", "o", "n">>, abbr |-> <<"O", "R">>],
    [name |-> <<"p", "e", "n", "n", "s", "y", "l", "v", "a", "n", "i", "a">>, abbr |-> <<"P", "A">>],
    [name |-> <<"r", "h", "o", "d", "e", " ", "i", "s", "l", "a", "n", "d">>, abbr |-> <<"R", "I">>],
    [name |-> <<"s", "o", "u", "t", "h", " ", "c", "a", "r", "o", "l", "i", "n", "a">>, abbr |-> <<"S", "C">>],
    [name |-> <<"s", "o", "u", "t", "h", " ", "d", "a", "k", "o", "t", "a">>, abbr |-> <<"S", "D">>],
    [name |-> <<"t", "e", "n", "n", "e", "s", "s", "e", "e">>, abbr |-> <<"T", "N">>],
    [name |-> <<"t", "e", "x", "a", "s">>, abbr |-> <<"T", "X">>],
    [name |-> <<"u", "t", "a", "h">>, abbr |-> <<"U", "T">>],
    [name |-> <<"v", "e", "r", "m", "o", "n", "t">>, abbr |-> <<"V", "T">>],
    [name |-> <<"v", "i", "r", "g", "i", "n", "i", "a">>, abbr |-> <<"V", "A">>],
    [name |-> <<"w", "a", "s", "h", "i", "n", "g", "t", "o", "n">>, abbr |-> <<"W", "A">>],
    [name |-> <<"w", "e", "s", "t", " ", "v", "i", "r", "g", "i", "n", "i", "a">>, abbr |-> <<"W", "V">>],
    [name |-> <<"w", "i", "s", "c", "o", "n", "s", "i", "n">>, abbr |-> <<"W", "I">>],
    [name |-> <<"w", "y", "o", "m", "i", "n", "g">>, abbr |-> <<"W", "Y">>],
    [name |-> <<"d", "i", "s", "t", "r", "i", "c", "t", " ", "o", "f", " ", "c", "o", "l", "u", "m", "b", "i", "a">>, abbr |-> <<"D", "C">>]
  >>

UNITED_STATES == <<"u", "n", "i", "t", "e", "d", " ", "s", "t", "a", "t", "e", "s">>

\* (?:\s+\d{5}(?:-\d{4})?)$ on the text after the two letters
ZipTail(rest) ==
  LET t == TrimLeft(rest)
  IN  /\ Len(t) < Len(rest)
      /\ \/ Len(t) = 5 /\ AllDigits(t, 1, 5)
         \/ Len(t) = 10 /\ AllDigits(t, 1, 5) /\ t[6] = "-" /\ AllDigits(t, 7, 10)

MinOf(S) == CHOOSE i \in S : \A j \in S : i <= j

MaxOf(S) == CHOOSE i \in S : \A j \in S : j <= i

\* positions where /\b([A-Z]{2})\b(?:\s+\d{5}(?:-\d{4})?)?$/ matches
AbbrPositions(raw) ==
  {i \in 1..(Len(raw) - 1) :
      /\ raw[i] \in UpperLetters
      /\ raw[i + 1] \in UpperLetters
      /\ Boundary(raw, i - 1)
      /\ Boundary(raw, i + 1)
      /\ (i + 1 = Len(raw) \/ ZipTail(SubSeq(raw, i + 2, Len(raw))))}

\* group 1 of the leftmost match
AbbrAt(raw, M) == IF M = {} THEN Null ELSE SubSeq(raw, MinOf(M), MinOf(M) + 1)

\* raw.match(/\b([A-Z]{2})\b(?:\s+\d{5}(?:-\d{4})?)?$/)?.[1]
AbbrMatch(raw) == AbbrAt(raw, AbbrPositions(raw))

\* the entries of the map whose name occurs in the text
NameHits(lower) ==
  {k \in 1..Len(STATE_NAME_TO_ABBR) : Includes(lower, STATE_NAME_TO_ABBR[k].name)}

LastHit(H) == IF H = {} THEN Null ELSE STATE_NAME_TO_ABBR[MaxOf(H)].abbr

\* for (const [name, abbr] of STATE_NAME_TO_ABBR.entries())
\*   if (lower.includes(name)) found = abbr;
FoundByName(lower) == LastHit(NameHits(lower))

STREET_WORDS == {<<"s", "u", "i", "t", "e">>, <<"s", "t", "e">>, <<"s", "t", "e", ".">>, <<"a", "p", "t">>, <<"a", "p", "t", ".">>, <<"u", "n", "i", "t">>, <<"#">>}

\* /^\d{1,6}\s/.test(v) || /\b(suite|ste\.?|apt\.?|unit|#)\b/i.test(v)
AddressLike(v, l) ==
  \/ \E n \in 1..6 : n < Len(v) /\ AllDigits(v, 1, n) /\ v[n + 1] = " "
  \/ \E w \in STREET_WORDS :
        \E k \in 1..(Len(v) - Len(w) + 1) :
           /\ SubSeq(l, k, k + Len(w) - 1) = w
           /\ Boundary(v, k - 1)
           /\ Boundary(v, k + Len(w) - 1)

NonEmptyAddressLike(v) == v # << >> /\ AddressLike(v, ToLower(v))

\* function looksLikeStreetAddress(s)
looksLikeStreetAddress(s) == NonEmptyAddressLike(normalize(s))

\* raw.split(",")
RECURSIVE SplitComma(_)
SplitComma(s) ==
  IF \A k \in 1..Len(s) : s[k] # ","
    THEN <<s>>
    ELSE LET k == CHOOSE k \in 1..Len(s) :
                     s[k] = "," /\ \A j \in 1..(k - 1) : s[j] # ","
         IN  <<SubSeq(s, 1, k - 1)>> \o SplitComma(SubSeq(s, k + 1, Len(s)))

TrimAll(parts) == [i \in 1..Len(parts) |-> Trim(parts[i])]

\* raw.split(",").map((p) => p.trim()).filter(Boolean)
Parts(raw) == SelectSeq(TrimAll(SplitComma(raw)), LAMBDA p : p # << >>)

\* new RegExp(`\\b${state}\\b`).test(p)
HasToken(p, state) ==
  \E k \in 1..(Len(p) - 1) :
     /\ SubSeq(p, k, k + 1) = state
     /\ Boundary(p, k - 1)
     /\ Boundary(p, k + 1)

\* parts[i].toLowerCase() includes the name of the state
HasName(p, state) ==
  \E e \in 1..Len(STATE_NAME_TO_ABBR) :
     /\ STATE_NAME_TO_ABBR[e].abbr = state
     /\ Includes(ToLower(p), STATE_NAME_TO_ABBR[e].name)

FirstIn(A, N) == IF A # {} THEN MinOf(A) ELSE IF N # {} THEN MinOf(N) ELSE 0

\* the index of the part that holds the state, by abbreviation and then by
\* name; 0 where the code has -1, parts being numbered from 1 here
StateIdx(parts, state) ==
  FirstIn({i \in 1..Len(parts) : HasToken(parts[i], state)},
          {i \in 1..Len(parts) : HasName(parts[i], state)})

\* candidate && !looksLikeStreetAddress(candidate) &&
\* candidate.toLowerCase() !== "united states"
CityCandidate(c) ==
  ~looksLikeStreetAddress(c) /\ ToLower(c) # UNITED_STATES

\* abbrMatch?.[1] && STATE_ABBRS.has(abbrMatch[1]) ? abbrMatch[1] : null,
\* and the search by name when that is null
StateFrom(abbr, lower) ==
  IF abbr # Null /\ abbr \in STATE_ABBRS THEN abbr ELSE FoundByName(lower)

StateOf(raw) == StateFrom(AbbrMatch(raw), ToLower(raw))

\* fallback: the first part
FirstPart(parts) == IF CityCandidate(parts[1]) THEN parts[1] ELSE Null

\* city is the part right before the state part, or else the first part
BeforeState(parts, stateIdx) ==
  IF stateIdx > 1 /\ CityCandidate(parts[stateIdx - 1])
    THEN parts[stateIdx - 1] ELSE FirstPart(parts)

\* 3) City extraction rules
CityOf(raw, state, parts) ==
  IF Len(parts) >= 2
    THEN IF state # Null THEN BeforeState(parts, StateIdx(parts, state))
                         ELSE FirstPart(parts)
    ELSE IF ToLower(raw) # UNITED_STATES /\ ~looksLikeStreetAddress(raw)
           THEN raw ELSE Null

ParseNormalized(raw) ==
  IF raw = << >> THEN [city |-> Null, state |-> Null]
  ELSE IF Includes(ToLower(raw), <<"r", "e", "m", "o", "t", "e">>)
    THEN [city |-> <<"R", "e", "m", "o", "t", "e">>, state |-> Null]
  ELSE [city |-> CityOf(raw, StateOf(raw), Parts(raw)), state |-> StateOf(raw)]

\* function parseLocationUS(locationRaw)
parseLocationUS(locationRaw) == ParseNormalized(normalize(locationRaw))

\* location_raw: locationRaw, location_city: city, location_state: state
LocationRow(locationRaw, parsed) ==
  [location_raw |-> locationRaw, location_city |-> parsed.city,
   location_state |-> parsed.state]

OrNull(v) == IF v # << >> THEN v ELSE Null

ParsedRow(locationRaw) == LocationRow(locationRaw, parseLocationUS(locationRaw))

\* const locationRaw = normalize(j?.location?.name) || ... || null;
\* const { city, state } = parseLocationUS(locationRaw);
LocationFields(location) == ParsedRow(OrNull(normalize(location)))

\* The object literal of rows.push({...}).
RowOf(companySlug, j, runIso, fingerprint) ==
  [ source         |-> GREENHOUSE,
    source_job_id  |-> j.id,
    source_company |-> companySlug,
    title          |-> normalize(j.title),
    company        |-> companySlug,
    url            |-> normalize(j.absolute_url),
    description    |-> IF normalize(j.content) # <<>> THEN normalize(j.content)
                                                    ELSE Null,
    posted_at      |-> j.updated_at,
    fingerprint    |-> fingerprint,
    is_active      |-> TRUE,
    last_seen_at   |-> runIso ] @@ LocationFields(j.location)

\* Mutant of BuildRow: the title takes part in the identity key.
BuildRowTitleInKey(companySlug, j, runIso) ==
  RowOf(companySlug, j, runIso,
        buildFingerprint(GREENHOUSE \o normalize(j.title), j.id,
                         normalize(j.absolute_url)))

\* Mutant of BuildRow: posted_at is taken from the run, not from the posting.
BuildRowPostedNow(companySlug, j, runIso) ==
  [RowOf(companySlug, j, runIso,
         buildFingerprint(GREENHOUSE, j.id, normalize(j.absolute_url)))
     EXCEPT !.posted_at = runIso]

\* One element of rows[] as main() builds it from posting j of board slug.
BuildRow(companySlug, j, runIso) ==
  RowOf(companySlug, j, runIso,
        buildFingerprint(GREENHOUSE, j.id, normalize(j.absolute_url)))

\* Postings that pass "if (!title || !jobUrl) continue".
Valid(jobs) ==
  {j \in jobs : normalize(j.title) # <<>> /\ normalize(j.absolute_url) # <<>>}

Excluded(jobs) == {j \in Valid(jobs) : shouldExcludeTitle(normalize(j.title))}

\* Mutant of Accepted: the title check does not drop the posting.
AcceptedWithExcluded(jobs) == Valid(jobs)

Accepted(jobs) == Valid(jobs) \ Excluded(jobs)

BuildRows(companySlug, jobs, runIso) ==
  {BuildRow(companySlug, j, runIso) : j \in Accepted(jobs)}

Fingerprints(rs) == {r.fingerprint : r \in rs}

\* supabase.from("jobs").upsert(rows, { onConflict: "fingerprint" })
UpsertRows(cat, rs) ==
  [fp \in (DOMAIN cat) \cup Fingerprints(rs) |->
      IF fp \in Fingerprints(rs)
        THEN CHOOSE r \in rs : r.fingerprint = fp
        ELSE cat[fp]]

\* Mutant of StaleRows: the comparison admits rows written by the same run.
StaleRowsNotNewer(cat, companySlug, runIso) ==
  {fp \in DOMAIN cat :
      /\ cat[fp].source = GREENHOUSE
      /\ cat[fp].source_company = companySlug
      /\ cat[fp].last_seen_at <= runIso}

\* The rows selected by
\*   .eq("source","greenhouse").eq("source_company",slug).lt("last_seen_at",runIso)
StaleRows(cat, companySlug, runIso) ==
  {fp \in DOMAIN cat :
      /\ cat[fp].source = GREENHOUSE
      /\ cat[fp].source_company = companySlug
      /\ cat[fp].last_seen_at < runIso}

\* update({ is_active: false }) on the selected rows
MarkStaleInactive(cat, companySlug, runIso) ==
  [fp \in DOMAIN cat |->
      IF fp \in StaleRows(cat, companySlug, runIso)
        THEN [cat[fp] EXCEPT !.is_active = FALSE]
        ELSE cat[fp]]

\* What one request to the boards API of a slug can return.
\*   kind "ok"           : JSON with a jobs array
\*   kind "no_jobs_list" : JSON without a jobs array
\*   kind "http_error"   : !res.ok, or a body that is not JSON (both throw)
fetchGreenhouseJobs(resp) ==
  IF resp.kind = "ok" THEN resp.jobs ELSE {}

FetchThrows(resp) == resp.kind = "http_error"

\* ------------------------------------------------------------------------
\* State
\* ------------------------------------------------------------------------
VARIABLES
  upstream,       \* what each board's API currently returns
  catalog,        \* table jobs, keyed by fingerprint
  clock,          \* wall clock, in run starts
  pc,             \* per sync process: position in main()
  runIso,         \* per sync process: const runIso
  srcIdx,         \* per sync process: index of companySlug in sources
  rows,           \* per sync process: const rows of the current iteration
  totalUpserted, totalSkipped, totalErrors,
  \* history of the sync, for the properties only
  prevUp,         \* per source: fingerprints it upserted in the previous run
  curUp,          \* per source: fingerprints it upserted in the current run
  owed,           \* fingerprints swept as absent and not upserted since
  observed,       \* per source: fingerprints upserted since (and in) its
                  \* most recent completed iteration
  snap,           \* catalog when the latest run started
  changed,        \* the boards changed since the latest run started
  sameUp,         \* the last two completed runs read the same upstream
  writeFailed,    \* a catalog write of the current run failed
  wfLast, wfPrev, \* writeFailed of the last two completed runs
  runsDone,
  shist,          \* per run: sources visited, sources whose iteration threw,
                  \* sources whose upsert threw, sources that answered
                  \* without a postings list
  \* rows built from single postings, for the properties of the identity key
  built,
  \* the arguments and results of a pure function applied on its own
  probe,
  \* what the jobs table gives is_active when an insert does not set it
  isActiveDefault,
  \* saved_search_alerts has a unique index on (saved_search_id, job_id)
  ledgerUnique,
  \* the alert cycle
  DRY_RUN,            \* const DRY_RUN of the process environment
  subscriptions,      \* saved_search_alerts joined with saved_searches and
                      \* email_subscribers (alert_runs version)
  saved_searches,     \* table saved_searches (versions keeping a ledger)
  ledger,             \* table saved_search_alerts used as (search, job) ledger
  alert_runs,         \* table alert_runs, in insertion order
  alert_deliveries,   \* table alert_deliveries, in insertion order
  outbox,             \* messages accepted by the mail provider, in order
  al,                 \* per alert process: position and locals of main()
  ahist               \* history of the alert cycle, for the properties only

syncVars == <<upstream, catalog, clock, pc, runIso, srcIdx, rows,
              totalUpserted, totalSkipped, totalErrors,
              prevUp, curUp, owed, observed, snap, changed, sameUp,
              writeFailed, wfLast, wfPrev, runsDone, shist>>

fpVars == <<built>>

fnVars == <<probe>>

\* what main() of the sync never touches
storeVars == <<isActiveDefault, ledgerUnique>>

alertVars == <<DRY_RUN, subscriptions, saved_searches, ledger, alert_runs,
               alert_deliveries, outbox, al, ahist>>

notSync == <<fpVars, fnVars, storeVars, alertVars>>

\* what main() of the alert cycle never touches
notAlert == <<upstream, pc, runIso, srcIdx, rows,
              totalUpserted, totalSkipped, totalErrors,
              prevUp, curUp, owed, observed, snap, changed, sameUp,
              writeFailed, wfLast, wfPrev, runsDone, shist, fpVars, fnVars,
              storeVars>>

vars == <<syncVars, fpVars, fnVars, storeVars, alertVars>>

\* ------------------------------------------------------------------------
\* Inputs of the sync
\* ------------------------------------------------------------------------
\* readSources(): the configured board slugs, in file order
sources == << <<"a">>, <<"b">> >>

Slugs == {sources[i] : i \in 1..Len(sources)}

Posting(id, title, url, updated) ==
  [id |-> id, title |-> title, absolute_url |-> url,
   location |-> <<"x">>, content |-> <<"c">>, updated_at |-> updated]

P1  == Posting(<<"1">>, <<"a">>, <<"u">>, 1)
P2  == Posting(<<"2">>, <<"b">>, <<"v">>, 2)
P2x == Posting(<<"2">>, <<"I", "T">>, <<"v">>, 1)   \* an excluded title

\* Postings a board may list: board "a" lists up to two, board "b" at most
\* the posting with native id 1.
PostingPool(slug) == IF slug = sources[1] THEN {P1, P2, P2x} ELSE {P1}

\* A board lists each posting once.
Batches(slug) ==
  {b \in SUBSET PostingPool(slug) :
      /\ Cardinality(b) <= MaxBatch
      /\ \A p, q \in b : p # q => p.id # q.id}

Responses(slug) ==
  {[kind |-> "ok", jobs |-> b] : b \in Batches(slug)}
    \cup {[kind |-> "http_error", jobs |-> {}]}
    \cup (IF slug = sources[1] THEN {[kind |-> "no_jobs_list", jobs |-> {}]} ELSE {})

Upstreams == {u \in [Slugs -> UNION {Responses(s) : s \in Slugs}] :
                 \A s \in Slugs : u[s] \in Responses(s)}

SyncProcs == {1, 2}

\* ------------------------------------------------------------------------
\* main() of the sync, one action per await
\* ------------------------------------------------------------------------
\* the locals of main() before any run
SyncLocalsInit ==
  /\ clock = 0
  /\ pc = [r \in SyncProcs |-> "idle"]
  /\ runIso = [r \in SyncProcs |-> 0]
  /\ srcIdx = [r \in SyncProcs |-> 1]
  /\ rows = [r \in SyncProcs |-> {}]
  /\ totalUpserted = [r \in SyncProcs |-> 0]
  /\ totalSkipped = [r \in SyncProcs |-> 0]
  /\ totalErrors = [r \in SyncProcs |-> 0]
  /\ prevUp = [s \in Slugs |-> {}]
  /\ curUp = [s \in Slugs |-> {}]
  /\ owed = {}
  /\ observed = [s \in Slugs |-> {}]
  /\ snap = << >>
  /\ changed = FALSE
  /\ sameUp = FALSE
  /\ writeFailed = FALSE
  /\ wfLast = FALSE
  /\ wfPrev = FALSE
  /\ runsDone = 0
  /\ shist = [visited |-> {}, failed |-> {}, upsertFailed |-> {}, malformed |-> {}]
  /\ built = {}

SyncIdleInit ==
  /\ SyncLocalsInit
  /\ probe = << >>

\* No alert cycle has run and nothing is subscribed.
AlertIdleInit ==
  /\ ledgerUnique = TRUE
  /\ DRY_RUN = TRUE
  /\ subscriptions = << >>
  /\ saved_searches = << >>
  /\ ledger = {}
  /\ alert_runs = << >>
  /\ alert_deliveries = << >>
  /\ outbox = << >>
  /\ al = << >>
  /\ ahist = << >>

BaseInit ==
  /\ upstream \in Upstreams
  /\ catalog = << >>
  /\ SyncIdleInit
  /\ AlertIdleInit

SyncInit ==
  /\ BaseInit
  /\ isActiveDefault = TRUE

\* The boards change between runs.
ChangeUpstream ==
  /\ UNCHANGED notSync
  /\ \A r \in SyncProcs : pc[r] = "idle"
  /\ runsDone > 0
  /\ \E s \in Slugs : \E resp \in Responses(s) :
        /\ resp # upstream[s]
        /\ upstream' = [upstream EXCEPT ![s] = resp]
  /\ changed' = TRUE
  /\ UNCHANGED <<catalog, clock, pc, runIso, srcIdx, rows,
                 totalUpserted, totalSkipped, totalErrors,
                 prevUp, curUp, owed, observed, snap, sameUp,
                 writeFailed, wfLast, wfPrev, runsDone, shist>>

\* const runIso = new Date().toISOString(); counters = 0
StartRun(r) ==
  /\ UNCHANGED notSync
  /\ pc[r] = "idle"
  /\ clock < MaxClock
  /\ clock' = clock + 1
  /\ runIso' = [runIso EXCEPT ![r] = clock + 1]
  /\ srcIdx' = [srcIdx EXCEPT ![r] = 1]
  /\ rows' = [rows EXCEPT ![r] = {}]
  /\ totalUpserted' = [totalUpserted EXCEPT ![r] = 0]
  /\ totalSkipped' = [totalSkipped EXCEPT ![r] = 0]
  /\ totalErrors' = [totalErrors EXCEPT ![r] = 0]
  /\ pc' = [pc EXCEPT ![r] = "fetch"]
  /\ prevUp' = curUp
  /\ curUp' = [s \in Slugs |-> {}]
  /\ snap' = catalog
  /\ sameUp' = (runsDone > 0 /\ ~changed)
  /\ changed' = FALSE
  /\ writeFailed' = FALSE
  /\ shist' = [visited |-> {}, failed |-> {}, upsertFailed |-> {}, malformed |-> {}]
  /\ UNCHANGED <<upstream, catalog, owed, observed, wfLast, wfPrev, runsDone>>

\* The end of one iteration of "for (const companySlug of sources)":
\* the next slug, or the summary and the end of main().
NextSource(r, failed) ==
  /\ UNCHANGED <<snap, changed, sameUp>>
  /\ IF srcIdx[r] < Len(sources)
       THEN /\ srcIdx' = [srcIdx EXCEPT ![r] = srcIdx[r] + 1]
            /\ pc' = [pc EXCEPT ![r] = "fetch"]
            /\ writeFailed' = failed
            /\ UNCHANGED <<wfLast, wfPrev, runsDone>>
       ELSE /\ srcIdx' = srcIdx
            /\ pc' = [pc EXCEPT ![r] = "idle"]
            /\ writeFailed' = failed
            /\ wfPrev' = wfLast
            /\ wfLast' = failed
            /\ runsDone' = runsDone + 1

\* const jobs = await fetchGreenhouseJobs(companySlug), then the loop that
\* builds rows; a throw goes to the catch block.
Fetch(r) ==
  /\ UNCHANGED notSync
  /\ pc[r] = "fetch"
  /\ LET slug == sources[srcIdx[r]]
         resp == upstream[slug]
         jobs == fetchGreenhouseJobs(resp)
     IN  IF FetchThrows(resp)
           THEN /\ totalErrors' = [totalErrors EXCEPT ![r] = totalErrors[r] + 1]
                /\ NextSource(r, writeFailed)
                /\ shist' = [shist EXCEPT !.visited = @ \cup {slug},
                                          !.failed = @ \cup {slug}]
                /\ UNCHANGED <<rows, totalSkipped>>
           ELSE /\ rows' = [rows EXCEPT ![r] = BuildRows(slug, jobs, runIso[r])]
                /\ shist' = [shist EXCEPT
                     !.visited = @ \cup {slug},
                     !.malformed = IF resp.kind = "no_jobs_list"
                                     THEN @ \cup {slug} ELSE @]
                /\ totalSkipped' = [totalSkipped EXCEPT
                                      ![r] = totalSkipped[r] + Cardinality(Excluded(jobs))]
                /\ pc' = [pc EXCEPT ![r] = IF BuildRows(slug, jobs, runIso[r]) = {}
                                             THEN "sweep_empty" ELSE "upsert"]
                /\ UNCHANGED <<totalErrors, srcIdx, snap, changed, sameUp,
                               writeFailed, wfLast, wfPrev, runsDone>>
  /\ UNCHANGED <<upstream, catalog, clock, runIso, totalUpserted,
                 prevUp, curUp, owed, observed>>

\* await upsertJobs(rows); totalUpserted += rows.length
UpsertOk(r) ==
  /\ UNCHANGED notSync
  /\ pc[r] = "upsert"
  /\ LET slug == sources[srcIdx[r]]
     IN  /\ catalog' = UpsertRows(catalog, rows[r])
         /\ curUp' = [curUp EXCEPT ![slug] = Fingerprints(rows[r])]
         /\ observed' = [observed EXCEPT ![slug] = @ \cup Fingerprints(rows[r])]
  /\ owed' = owed \ Fingerprints(rows[r])
  /\ totalUpserted' = [totalUpserted EXCEPT ![r] = totalUpserted[r] + Cardinality(rows[r])]
  /\ pc' = [pc EXCEPT ![r] = "sweep"]
  /\ UNCHANGED <<upstream, clock, runIso, srcIdx, rows, totalSkipped, totalErrors,
                 prevUp, snap, changed, sameUp, writeFailed, wfLast, wfPrev, runsDone,
                 shist>>

\* Mutant of UpsertFail: the error is counted and the sweep still runs.
UpsertFailThenSweep(r) ==
  /\ UNCHANGED notSync
  /\ pc[r] = "upsert"
  /\ totalErrors' = [totalErrors EXCEPT ![r] = totalErrors[r] + 1]
  /\ pc' = [pc EXCEPT ![r] = "sweep"]
  /\ writeFailed' = TRUE
  /\ shist' = [shist EXCEPT !.failed = @ \cup {sources[srcIdx[r]]},
                            !.upsertFailed = @ \cup {sources[srcIdx[r]]}]
  /\ UNCHANGED <<upstream, catalog, clock, runIso, srcIdx, rows, totalUpserted,
                 totalSkipped, prevUp, curUp, owed, observed, snap, changed,
                 sameUp, wfLast, wfPrev, runsDone>>

\* upsertJobs throws: the catch block counts the error, no sweep
UpsertFail(r) ==
  /\ UNCHANGED notSync
  /\ pc[r] = "upsert"
  /\ totalErrors' = [totalErrors EXCEPT ![r] = totalErrors[r] + 1]
  /\ NextSource(r, TRUE)
  /\ shist' = [shist EXCEPT !.failed = @ \cup {sources[srcIdx[r]]},
                            !.upsertFailed = @ \cup {sources[srcIdx[r]]}]
  /\ UNCHANGED <<upstream, catalog, clock, runIso, rows, totalUpserted, totalSkipped,
                 prevUp, curUp, owed, observed>>

\* await markStaleInactive(companySlug, runIso), on either path
SweepOk(r) ==
  /\ UNCHANGED notSync
  /\ pc[r] \in {"sweep", "sweep_empty"}
  /\ LET slug == sources[srcIdx[r]]
         cat  == MarkStaleInactive(catalog, slug, runIso[r])
     IN  /\ catalog' = cat
         /\ observed' = [observed EXCEPT ![slug] = Fingerprints(rows[r])]
         /\ owed' = owed \cup (prevUp[slug] \ Fingerprints(rows[r]))
         /\ NextSource(r, writeFailed)
  /\ UNCHANGED <<upstream, clock, runIso, rows, totalUpserted, totalSkipped,
                 totalErrors, prevUp, curUp, shist>>

\* markStaleInactive throws
SweepFail(r) ==
  /\ UNCHANGED notSync
  /\ pc[r] \in {"sweep", "sweep_empty"}
  /\ totalErrors' = [totalErrors EXCEPT ![r] = totalErrors[r] + 1]
  /\ NextSource(r, TRUE)
  /\ shist' = [shist EXCEPT !.failed = @ \cup {sources[srcIdx[r]]}]
  /\ UNCHANGED <<upstream, catalog, clock, runIso, rows, totalUpserted, totalSkipped,
                 prevUp, curUp, owed, observed>>

SyncStep(r) ==
  \/ StartRun(r)
  \/ Fetch(r)
  \/ UpsertOk(r)
  \/ UpsertFail(r)
  \/ SweepOk(r)
  \/ SweepFail(r)

\* One sync process at a time, as the scheduler starts them.
SyncNext ==
  \/ ChangeUpstream
  \/ SyncStep(1)

SyncSpec == SyncInit /\ [][SyncNext]_vars

\* Two invocations of main() that overlap, over boards that do not change
\* and a store that does not fail.
ConcSyncNext ==
  \E r \in SyncProcs : StartRun(r) \/ Fetch(r) \/ UpsertOk(r) \/ SweepOk(r)

ConcSyncSpec == SyncInit /\ [][ConcSyncNext]_vars

\* ------------------------------------------------------------------------
\* The title filter of main(): runs over boards that list postings with
\* excluded titles, with and without a url
\* ------------------------------------------------------------------------
F1 == Posting(<<"1">>, <<"a">>, <<"u">>, 1)
F2 == Posting(<<"2">>, <<"U", "n", "i", "t">>, <<"v">>, 1)   \* contains "it"
F3 == Posting(<<"3">>, <<"I", "T">>, << >>, 1)               \* no absolute_url

FilterPool == {F1, F2, F3}

FilterUpstreams ==
  [Slugs -> {[kind |-> "ok", jobs |-> b] : b \in SUBSET FilterPool}]

FilterInit ==
  /\ upstream \in FilterUpstreams
  /\ catalog = << >>
  /\ SyncIdleInit
  /\ AlertIdleInit
  /\ isActiveDefault = TRUE

FilterNext == SyncStep(1)

FilterSpec == FilterInit /\ [][FilterNext]_vars

\* ------------------------------------------------------------------------
\* Ingestion, earlier version kept in scripts/sync-greenhouse.mjs
\* (scripts/import-greenhouse.mjs): no is_active, no last_seen_at, no sweep
\* ------------------------------------------------------------------------
IMPORT_EXCLUDE_TITLE_KEYWORDS == {
    <<"j","a","n","i","t","o","r">>,
    <<"c","l","e","a","n","i","n","g">>,
    <<"p","r","o","p","e","r","t","y"," ","m","a","i","n","t","e","n","a","n","c","e">>,
    <<"m","a","i","n","t","e","n","a","n","c","e">>,
    <<"m","a","i","n","t","e","n","a","n","c","e"," ","t","e","c","h","n","i","c","i","a","n">>,
    <<"f","a","c","i","l","i","t","i","e","s">>,
    <<"f","a","c","i","l","i","t","i","e","s"," ","m","a","n","a","g","e","r">>,
    <<"r","e","g","i","o","n","a","l"," ","f","a","c","i","l","i","t","i","e","s">>,
    <<"e","n","g","i","n","e","e","r","i","n","g">>,
    <<"e","n","g","i","n","e","e","r">>,
    <<"i","t"," ">>,
    <<"i","n","f","o","r","m","a","t","i","o","n"," ","t","e","c","h","n","o","l","o","g","y">>,
    <<"h","e","l","p","d","e","s","k">>,
    <<"d","e","s","k","t","o","p"," ","s","u","p","p","o","r","t">>,
    <<"n","e","t","w","o","r","k">>,
    <<"l","i","c","e","n","s","e","d"," ","r","e","a","l"," ","e","s","t","a","t","e"," ","a","g","e","n","t">>,
    <<"r","e","a","l"," ","e","s","t","a","t","e"," ","a","g","e","n","t">>
  }

\* function shouldExclude(title)
shouldExclude(title) ==
  LET t == ToLower(IF title = Null THEN <<>> ELSE title)
  IN  \E kw \in IMPORT_EXCLUDE_TITLE_KEYWORDS : Includes(t, kw)

\* The payload of rows.push({...}) for posting j of board slug.
ImportRow(slug, j) ==
  LET sourceJobId == IF j.id = Null THEN <<>> ELSE j.id
  IN  [ source        |-> GREENHOUSE,
        source_job_id |-> sourceJobId,
        title         |-> IF j.title = Null THEN <<>> ELSE j.title,
        company       |-> slug,
        location_raw  |-> IF j.location = Null \/ j.location = <<>>
                            THEN Null ELSE Trim(j.location),
        url           |-> IF j.absolute_url = Null \/ j.absolute_url = <<>>
                            THEN <<"/">> \o slug \o <<"/">> \o sourceJobId
                            ELSE j.absolute_url,
        posted_at     |-> j.updated_at,
        description   |-> Null,
        fingerprint   |-> GREENHOUSE \o <<":">> \o slug \o <<":">> \o sourceJobId ]

ImportRows(slug, jobs) ==
  {ImportRow(slug, j) :
     j \in {x \in jobs : ~shouldExclude(IF x.title = Null THEN <<>> ELSE x.title)}}

\* A row inserted from an import payload: the columns the payload does not
\* name take the defaults of the table.
InsertedRow(p, dflt) ==
  [ source |-> p.source, source_job_id |-> p.source_job_id,
    source_company |-> Null, title |-> p.title, company |-> p.company,
    location_raw |-> p.location_raw, url |-> p.url,
    description |-> p.description, posted_at |-> p.posted_at,
    fingerprint |-> p.fingerprint, is_active |-> dflt, last_seen_at |-> NoTime ]

\* A row updated from an import payload: only the named columns change.
UpdatedRow(old, p) ==
  [old EXCEPT !.source = p.source, !.source_job_id = p.source_job_id,
              !.title = p.title, !.company = p.company,
              !.location_raw = p.location_raw, !.url = p.url,
              !.description = p.description, !.posted_at = p.posted_at]

\* upsertJobs of the import: upsert(rows, { onConflict: "fingerprint" })
ImportUpsertRows(cat, rs, dflt) ==
  [fp \in (DOMAIN cat) \cup Fingerprints(rs) |->
      IF fp \in Fingerprints(rs)
        THEN LET p == CHOOSE r \in rs : r.fingerprint = fp
             IN  IF fp \in DOMAIN cat THEN UpdatedRow(cat[fp], p)
                                      ELSE InsertedRow(p, dflt)
        ELSE cat[fp]]

ImportFrame ==
  UNCHANGED <<upstream, clock, runIso, totalErrors,
              prevUp, curUp, owed, snap, changed, sameUp, writeFailed,
              wfLast, wfPrev, shist, built, probe, storeVars, alertVars>>

\* main() of the import starts
ImportStart(r) ==
  /\ pc[r] = "idle"
  /\ clock < MaxClock
  /\ clock' = clock + 1
  /\ srcIdx' = [srcIdx EXCEPT ![r] = 1]
  /\ rows' = [rows EXCEPT ![r] = {}]
  /\ pc' = [pc EXCEPT ![r] = "import_fetch"]
  /\ totalUpserted' = [totalUpserted EXCEPT ![r] = 0]
  /\ totalSkipped' = [totalSkipped EXCEPT ![r] = 0]
  /\ UNCHANGED <<upstream, catalog, runIso, totalErrors,
                 prevUp, curUp, owed, observed, snap, changed, sameUp, writeFailed,
                 wfLast, wfPrev, runsDone, shist, built, probe, storeVars, alertVars>>

\* the end of one iteration of "for (const slug of slugs)"
ImportNextSlug(r) ==
  IF srcIdx[r] < Len(sources)
    THEN /\ srcIdx' = [srcIdx EXCEPT ![r] = srcIdx[r] + 1]
         /\ pc' = [pc EXCEPT ![r] = "import_fetch"]
         /\ runsDone' = runsDone
    ELSE /\ srcIdx' = srcIdx
         /\ pc' = [pc EXCEPT ![r] = "idle"]
         /\ runsDone' = runsDone + 1

\* fetchGreenhouseJobs(slug), "if (!ok) continue", then the loop building
\* rows, then "if (rows.length)"
ImportFetch(r) ==
  /\ pc[r] = "import_fetch"
  /\ LET slug == sources[srcIdx[r]]
         resp == upstream[slug]
         jobs == fetchGreenhouseJobs(resp)
         rs   == ImportRows(slug, jobs)
     IN  IF resp.kind = "http_error"
           THEN /\ ImportNextSlug(r)
                /\ UNCHANGED <<rows, observed, totalSkipped>>
           ELSE /\ rows' = [rows EXCEPT ![r] = rs]
                /\ totalSkipped' = [totalSkipped EXCEPT
                       ![r] = @ + Cardinality(jobs) - Cardinality(rs)]
                /\ IF rs = {}
                     THEN /\ ImportNextSlug(r)
                          /\ observed' = [observed EXCEPT ![slug] = {}]
                     ELSE /\ pc' = [pc EXCEPT ![r] = "import_upsert"]
                          /\ UNCHANGED <<srcIdx, runsDone, observed>>
  /\ UNCHANGED <<catalog, totalUpserted>>
  /\ ImportFrame

\* await upsertJobs(rows)
ImportUpsertOk(r) ==
  /\ pc[r] = "import_upsert"
  /\ catalog' = ImportUpsertRows(catalog, rows[r], isActiveDefault)
  /\ observed' = [observed EXCEPT ![sources[srcIdx[r]]] = Fingerprints(rows[r])]
  /\ totalUpserted' = [totalUpserted EXCEPT ![r] = @ + Cardinality(rows[r])]
  /\ ImportNextSlug(r)
  /\ UNCHANGED <<rows, totalSkipped>>
  /\ ImportFrame

\* upsertJobs throws; the catch block logs
ImportUpsertFail(r) ==
  /\ pc[r] = "import_upsert"
  /\ ImportNextSlug(r)
  /\ UNCHANGED <<catalog, rows, observed, totalUpserted, totalSkipped>>
  /\ ImportFrame

ImportInit ==
  /\ BaseInit
  /\ isActiveDefault \in BOOLEAN

ImportNext ==
  \/ ChangeUpstream
  \/ ImportStart(1)
  \/ ImportFetch(1)
  \/ ImportUpsertOk(1)
  \/ ImportUpsertFail(1)

ImportSpec == ImportInit /\ [][ImportNext]_vars

\* ------------------------------------------------------------------------
\* The identity key on its own: main() builds and upserts the row of one
\* posting of one board, for postings drawn from FpPostings.
\* ------------------------------------------------------------------------
MaxBuilt == 2

FpPostings ==
  {[id |-> id, title |-> t, absolute_url |-> u, location |-> l,
    content |-> c, updated_at |-> 1] :
      id \in {<<"1">>, <<"2">>, Null}, t \in {<<"a">>, <<"b">>},
      u \in {<<"u">>, <<"v">>}, l \in {<<"x">>, <<"y">>}, c \in {<<"c">>, <<"d">>}}

ObservePosting(slug, j) ==
  /\ Cardinality(built) < MaxBuilt
  /\ j \in Accepted({j})
  /\ built' = built \cup {BuildRow(slug, j, clock)}
  /\ catalog' = UpsertRows(catalog, {BuildRow(slug, j, clock)})
  /\ UNCHANGED <<upstream, clock, pc, runIso, srcIdx, rows,
                 totalUpserted, totalSkipped, totalErrors,
                 prevUp, curUp, owed, observed, snap, changed, sameUp,
                 writeFailed, wfLast, wfPrev, runsDone, shist, probe, storeVars,
                 alertVars>>

FpInit ==
  /\ SyncInit
  /\ upstream = [s \in Slugs |-> [kind |-> "ok", jobs |-> {}]]

FpNext == \E slug \in Slugs, j \in FpPostings : ObservePosting(slug, j)

FpSpec == FpInit /\ [][FpNext]_vars

\* ------------------------------------------------------------------------
\* Alert cycle: scripts/run-saved-search-alerts.mjs, version keeping a run
\* record in alert_runs and one alert_deliveries row per subscription and run
\* ------------------------------------------------------------------------
\* job.column || "" ; a column the row does not carry reads as undefined
Col(job, name) ==
  IF name \in DOMAIN job /\ job[name] # Null THEN job[name] ELSE <<>>

\* f.key of a filters object
Opt(f, name) == IF name \in DOMAIN f THEN f[name] ELSE Null

\* !!f.key
Flag(f, name) == name \in DOMAIN f /\ f[name] = TRUE

\* function norm(v)
norm(v) ==
  IF v = Null THEN Null
  ELSE IF Trim(v) = <<>> THEN Null ELSE Trim(v)

\* `${a} ${b} ...`
JoinSpace(parts) ==
  LET RECURSIVE J(_)
      J(i) == IF i > Len(parts) THEN <<>>
              ELSE IF i = Len(parts) THEN parts[i]
              ELSE parts[i] \o <<" ">> \o J(i + 1)
  IN  J(1)

REMOTE == <<"r","e","m","o","t","e">>

\* function jobMatches(job, f)
jobMatches(job, f) ==
  LET company == norm(Opt(f, "company"))
      state   == norm(Opt(f, "state"))
      source  == norm(Opt(f, "source"))
      q       == norm(Opt(f, "q"))
  IN  /\ company # Null => Includes(ToLower(Col(job, "company")), ToLower(company))
      /\ state # Null => Trim(ToUpper(Col(job, "location_state"))) = ToUpper(state)
      /\ source # Null => Trim(ToLower(Col(job, "source"))) = ToLower(source)
      /\ Flag(f, "remote_only") =>
           Includes(ToLower(JoinSpace(<<Col(job, "location_raw"),
                                        Col(job, "location_city"),
                                        Col(job, "location_state")>>)), REMOTE)
      /\ Flag(f, "pay_only") => ("has_pay" \in DOMAIN job /\ job.has_pay = TRUE)
      /\ q # Null =>
           Includes(ToLower(JoinSpace(<<Col(job, "title"), Col(job, "company"),
                                        Col(job, "location_raw"),
                                        Col(job, "location_city"),
                                        Col(job, "location_state"),
                                        Col(job, "description")>>)), ToLower(q))

\* .order("posted_at", { ascending: false }).limit(n) and .slice(0, n) of such
\* a result: the n newest rows; while more than n are left an oldest row goes
\* (the store breaks a tie of posted_at its own way)
RECURSIVE Limit(_, _)
Limit(S, n) ==
  IF Cardinality(S) <= n THEN S
  ELSE Limit(S \ {CHOOSE x \in S : \A y \in S : x.posted_at <= y.posted_at}, n)

\* .from("jobs").select(...).eq("is_active", true).limit(700)
ActiveJobs(cat) == Limit({cat[fp] : fp \in {k \in DOMAIN cat : cat[k].is_active}}, 700)

AlertProcs == {1, 2}

NoCount == -1    \* a count column that is NULL

\* Subscriptions the table may hold.
SubAll ==
  [id |-> 1, is_enabled |-> TRUE,
   saved_searches |-> [id |-> 1, name |-> <<"m">>, filters |-> << >>,
                       is_enabled |-> TRUE],
   email_subscribers |-> [id |-> 1, email |-> <<"e">>]]

SubQ ==
  [id |-> 2, is_enabled |-> TRUE,
   saved_searches |-> [id |-> 2, name |-> <<"n">>, filters |-> [q |-> <<"B">>],
                       is_enabled |-> TRUE],
   email_subscribers |-> [id |-> 2, email |-> <<"f">>]]

SubOff == [SubQ EXCEPT !.is_enabled = FALSE]

SubSearchOff == [SubQ EXCEPT !.saved_searches.is_enabled = FALSE]

\* a joined relation without a row (null in the result)
NoRow == [none |-> TRUE]

SubNoEmail == [SubQ EXCEPT !.email_subscribers = NoRow]

SubscriptionTables ==
  { <<SubAll>>, <<SubAll, SubQ>>, <<SubOff>>, <<SubSearchOff>>,
    <<SubNoEmail, SubAll>> }

\* Catalogs left by a sync of board "a".
AlertCatalogs ==
  {MarkStaleInactive(UpsertRows(<< >>, BuildRows(sources[1], b, 1)), sources[1], 1) :
     b \in Batches(sources[1])}

AlertIdle ==
  [pc |-> "idle", runId |-> 0, enabledSubs |-> << >>, jobs |-> {}, idx |-> 1,
   matched |-> {}, deliveriesCreated |-> 0, emailsProcessed |-> 0]

AlertRunsInit ==
  /\ SyncIdleInit
  /\ isActiveDefault = TRUE
  /\ upstream = [s \in Slugs |-> [kind |-> "ok", jobs |-> {}]]
  /\ catalog \in AlertCatalogs
  /\ ledgerUnique = TRUE
  /\ DRY_RUN \in BOOLEAN
  /\ subscriptions \in SubscriptionTables
  /\ saved_searches = << >>
  /\ ledger = {}
  /\ alert_runs = << >>
  /\ alert_deliveries = << >>
  /\ outbox = << >>
  /\ al = [p \in AlertProcs |-> AlertIdle]
  /\ ahist = [deliveriesAtStart |-> 0, outboxAtStart |-> 0, rerun |-> FALSE,
              lastCompleted |-> FALSE, changed |-> FALSE]

\* Between alert cycles a sync of board "a" changes the catalog.
CatalogChange ==
  /\ \A p \in AlertProcs : al[p].pc = "idle"
  /\ clock < MaxClock
  /\ clock' = clock + 1
  /\ \E b \in Batches(sources[1]) :
       \E rs \in {BuildRows(sources[1], b, clock + 1)} :
          \E cat \in {MarkStaleInactive(UpsertRows(catalog, rs),
                                        sources[1], clock + 1)} :
             /\ cat # catalog
             /\ catalog' = cat
  /\ ahist' = [ahist EXCEPT !.changed = TRUE]
  /\ UNCHANGED <<DRY_RUN, subscriptions, saved_searches, ledger, alert_runs,
                 alert_deliveries, outbox, al>>
  /\ UNCHANGED notAlert

\* process.exit(1) from main().catch
Crash(p) == al' = [al EXCEPT ![p].pc = "idle"]

\* main(): 0) create a run record
AR_Start(p) ==
  /\ al[p].pc = "idle"
  /\ clock < MaxClock
  /\ clock' = clock + 1
  /\ alert_runs' = Append(alert_runs,
        [id |-> Len(alert_runs) + 1, started_at |-> clock', dry_run |-> DRY_RUN,
         finished_at |-> NoTime, deliveries_created |-> NoCount,
         emails_processed |-> NoCount])
  /\ al' = [al EXCEPT ![p] = [AlertIdle EXCEPT !.pc = "load_subs",
                                              !.runId = Len(alert_runs) + 1]]
  /\ ahist' = [deliveriesAtStart |-> Len(alert_deliveries),
               outboxAtStart |-> Len(outbox),
               rerun |-> ahist.lastCompleted /\ ~ahist.changed,
               lastCompleted |-> FALSE, changed |-> FALSE]
  /\ UNCHANGED <<catalog, DRY_RUN, subscriptions, saved_searches, ledger,
                 alert_deliveries, outbox>>
  /\ UNCHANGED notAlert

AR_Frame == UNCHANGED <<catalog, clock, DRY_RUN, subscriptions, saved_searches, ledger>>

\* .update({ finished_at, ... }).eq("id", runId); its error is not looked at
FinishRun(runs, runId, fields, ok) ==
  IF ok THEN [runs EXCEPT ![runId] = fields @@ runs[runId]] ELSE runs

\* 1) load active alert subscriptions
AR_LoadSubs(p) ==
  /\ al[p].pc = "load_subs"
  /\ LET subs == SelectSeq(subscriptions, LAMBDA s : s.is_enabled)
         enabledSubs == SelectSeq(subs, LAMBDA s :
                           /\ "is_enabled" \in DOMAIN s.saved_searches
                           /\ s.saved_searches.is_enabled)
     IN  IF Len(enabledSubs) = 0
           THEN /\ \E ok \in BOOLEAN :
                     alert_runs' = FinishRun(alert_runs, al[p].runId,
                                             [finished_at |-> clock], ok)
                /\ al' = [al EXCEPT ![p].pc = "idle"]
                /\ ahist' = [ahist EXCEPT !.lastCompleted = TRUE]
           ELSE /\ al' = [al EXCEPT ![p].pc = "load_jobs",
                                    ![p].enabledSubs = enabledSubs]
                /\ UNCHANGED <<alert_runs, ahist>>
  /\ UNCHANGED <<alert_deliveries, outbox>>
  /\ AR_Frame
  /\ UNCHANGED notAlert

\* 2) pull recent jobs once
AR_LoadJobs(p) ==
  /\ al[p].pc = "load_jobs"
  /\ al' = [al EXCEPT ![p].pc = "loop", ![p].jobs = ActiveJobs(catalog)]
  /\ UNCHANGED <<alert_runs, alert_deliveries, outbox, ahist>>
  /\ AR_Frame
  /\ UNCHANGED notAlert

\* if (subErr) throw subErr;  if (jErr) throw jErr;
AR_LoadFail(p) ==
  /\ al[p].pc \in {"load_subs", "load_jobs"}
  /\ Crash(p)
  /\ UNCHANGED <<alert_runs, alert_deliveries, outbox, ahist>>
  /\ AR_Frame
  /\ UNCHANGED notAlert

\* const email = sub.email_subscribers?.email
EmailOf(sub) ==
  IF "email" \in DOMAIN sub.email_subscribers
    THEN sub.email_subscribers.email ELSE Null

\* (jobs || []).filter((job) => jobMatches(job, filters)).slice(0, 50)
Matched(jobs, sub) ==
  Limit({j \in jobs : jobMatches(j, sub.saved_searches.filters)}, 50)

\* the subscription of this iteration gets a delivery
Deliverable(p) ==
  /\ al[p].pc = "loop"
  /\ al[p].idx <= Len(al[p].enabledSubs)
  /\ EmailOf(al[p].enabledSubs[al[p].idx]) \notin {Null, <<>>}
  /\ Matched(al[p].jobs, al[p].enabledSubs[al[p].idx]) # {}

\* AR_Iterate with the DRY_RUN test of the send branch dropped
AR_IterateSendsInDryRun(p) ==
  /\ al[p].pc = "loop"
  /\ al[p].idx <= Len(al[p].enabledSubs)
  /\ LET sub     == al[p].enabledSubs[al[p].idx]
         email   == EmailOf(sub)
         matched == Matched(al[p].jobs, sub)
     IN  IF ~Deliverable(p)
           THEN /\ al' = [al EXCEPT ![p].idx = @ + 1]
                /\ UNCHANGED alert_deliveries
           ELSE /\ alert_deliveries' = Append(alert_deliveries,
                     [run_id |-> al[p].runId, saved_search_alert_id |-> sub.id,
                      subscriber_email |-> email,
                      matched_count |-> Cardinality(matched),
                      status |-> IF DRY_RUN THEN "dry_run" ELSE "sent",
                      subject |-> <<Cardinality(matched), sub.saved_searches.name>>])
                /\ al' = [al EXCEPT ![p].pc = "send",
                                    ![p].matched = matched,
                                    ![p].deliveriesCreated = @ + 1]
  /\ UNCHANGED <<alert_runs, outbox, ahist>>
  /\ AR_Frame
  /\ UNCHANGED notAlert

\* one iteration of "for (const sub of enabledSubs)" up to the send
AR_Iterate(p) ==
  /\ al[p].pc = "loop"
  /\ al[p].idx <= Len(al[p].enabledSubs)
  /\ LET sub     == al[p].enabledSubs[al[p].idx]
         email   == EmailOf(sub)
         matched == Matched(al[p].jobs, sub)
     IN  IF ~Deliverable(p)
           THEN /\ al' = [al EXCEPT ![p].idx = @ + 1]
                /\ UNCHANGED alert_deliveries
           ELSE /\ alert_deliveries' = Append(alert_deliveries,
                     [run_id |-> al[p].runId, saved_search_alert_id |-> sub.id,
                      subscriber_email |-> email,
                      matched_count |-> Cardinality(matched),
                      status |-> IF DRY_RUN THEN "dry_run" ELSE "sent",
                      subject |-> <<Cardinality(matched), sub.saved_searches.name>>])
                /\ IF DRY_RUN
                     THEN al' = [al EXCEPT ![p].idx = @ + 1,
                                           ![p].deliveriesCreated = @ + 1,
                                           ![p].emailsProcessed = @ + 1]
                     ELSE al' = [al EXCEPT ![p].pc = "send",
                                           ![p].matched = matched,
                                           ![p].deliveriesCreated = @ + 1]
  /\ UNCHANGED <<alert_runs, outbox, ahist>>
  /\ AR_Frame
  /\ UNCHANGED notAlert

\* if (delErr) throw delErr;
AR_DeliveryFail(p) ==
  /\ Deliverable(p)
  /\ Crash(p)
  /\ UNCHANGED <<alert_runs, alert_deliveries, outbox, ahist>>
  /\ AR_Frame
  /\ UNCHANGED notAlert

\* await sendWithResend({ to: email, subject, html }); buildHtml lists
\* jobs.slice(0, 20)
AR_SendOk(p) ==
  /\ al[p].pc = "send"
  /\ LET sub == al[p].enabledSubs[al[p].idx]
     IN  outbox' = Append(outbox,
            [to |-> EmailOf(sub), subscription |-> sub.id,
             subject |-> <<Cardinality(al[p].matched), sub.saved_searches.name>>,
             jobs |-> {j.fingerprint : j \in Limit(al[p].matched, 20)}])
  /\ al' = [al EXCEPT ![p].pc = "loop", ![p].idx = @ + 1, ![p].matched = {},
                      ![p].emailsProcessed = @ + 1]
  /\ UNCHANGED <<alert_runs, alert_deliveries, ahist>>
  /\ AR_Frame
  /\ UNCHANGED notAlert

\* sendWithResend throws
AR_SendFail(p) ==
  /\ al[p].pc = "send"
  /\ Crash(p)
  /\ UNCHANGED <<alert_runs, alert_deliveries, outbox, ahist>>
  /\ AR_Frame
  /\ UNCHANGED notAlert

\* after the loop: update alert_runs with finished_at and the counters
AR_Finish(p) ==
  /\ al[p].pc = "loop"
  /\ al[p].idx > Len(al[p].enabledSubs)
  /\ \E ok \in BOOLEAN :
       alert_runs' = FinishRun(alert_runs, al[p].runId,
                       [finished_at |-> clock,
                        deliveries_created |-> al[p].deliveriesCreated,
                        emails_processed |-> al[p].emailsProcessed], ok)
  /\ al' = [al EXCEPT ![p].pc = "idle"]
  /\ ahist' = [ahist EXCEPT !.lastCompleted = TRUE]
  /\ UNCHANGED <<alert_deliveries, outbox>>
  /\ AR_Frame
  /\ UNCHANGED notAlert

AlertRunsNext ==
  \/ CatalogChange
  \/ AR_Start(1)
  \/ AR_LoadSubs(1)
  \/ AR_LoadJobs(1)
  \/ AR_LoadFail(1)
  \/ AR_Iterate(1)
  \/ AR_DeliveryFail(1)
  \/ AR_SendOk(1)
  \/ AR_SendFail(1)
  \/ AR_Finish(1)

AlertRunsSpec == AlertRunsInit /\ [][AlertRunsNext]_vars

\* ------------------------------------------------------------------------
\* Alert cycle, version of part_016: three-day window, ledger read before the
\* send and written after it
\* ------------------------------------------------------------------------
\* a value that is truthy in JavaScript
Truthy(v) == v # Null /\ v # <<>>

\* job.column, undefined (here Null) for a column the row does not carry
RawCol(job, name) == IF name \in DOMAIN job THEN job[name] ELSE Null

\* function matchJobToSearch(job, s)
matchJobToSearch(job, s) ==
  /\ Truthy(s.state) => RawCol(job, "location_state") = s.state
  /\ Truthy(s.source) => ToLower(Col(job, "source")) = ToLower(s.source)
  /\ Truthy(s.company) => Includes(ToLower(Col(job, "company")), ToLower(s.company))
  /\ s.remote_only =>
       Includes(ToLower(JoinSpace(<<Col(job, "location_raw"),
                                    Col(job, "location_city"),
                                    Col(job, "location_state")>>)), REMOTE)
  /\ s.pay_only => ("has_pay" \in DOMAIN job /\ job.has_pay = TRUE)
  /\ Truthy(s.q) =>
       Includes(ToLower(JoinSpace(<<Col(job, "title"), Col(job, "company"),
                                    Col(job, "location_raw"),
                                    Col(job, "location_city"),
                                    Col(job, "location_state")>>)), ToLower(s.q))

\* Rows the table saved_searches may hold.
SearchAll ==
  [id |-> 1, user_email |-> <<"e">>, q |-> Null, state |-> Null,
   company |-> Null, source |-> Null, remote_only |-> FALSE, pay_only |-> FALSE,
   is_enabled |-> TRUE, last_alerted_at |-> NoTime]

SearchQ == [SearchAll EXCEPT !.id = 2, !.user_email = <<"f">>, !.q = <<"B">>]

SearchOff == [SearchQ EXCEPT !.is_enabled = FALSE]

SearchNoEmail == [SearchQ EXCEPT !.user_email = Null]

SearchTables ==
  { <<SearchAll>>, <<SearchAll, SearchQ>>, <<SearchOff>>, <<SearchNoEmail, SearchAll>> }

\* the clock counts days; the window of the query is three days
WINDOW_DAYS == 3

\* .eq("is_active", true).gte("posted_at", since).limit(5000)
RecentJobs(cat, since) ==
  Limit({cat[fp] : fp \in {k \in DOMAIN cat :
                             cat[k].is_active /\ cat[k].posted_at >= since}}, 5000)

P16Idle ==
  [pc |-> "idle", run |-> 0, searches |-> << >>, jobs |-> {}, idx |-> 1,
   newOnes |-> {}]

Alert16Init ==
  /\ SyncIdleInit
  /\ isActiveDefault = TRUE
  /\ ledgerUnique \in BOOLEAN
  /\ upstream = [s \in Slugs |-> [kind |-> "ok", jobs |-> {}]]
  /\ catalog \in AlertCatalogs
  /\ DRY_RUN = FALSE
  /\ subscriptions = << >>
  /\ saved_searches \in SearchTables
  /\ ledger = EmptyBag
  /\ alert_runs = << >>
  /\ alert_deliveries = << >>
  /\ outbox = << >>
  /\ al = [p \in AlertProcs |-> P16Idle]
  /\ ahist = [overlaps |-> {}, changed |-> FALSE]

P16_Frame == UNCHANGED <<catalog, DRY_RUN, subscriptions, alert_runs, alert_deliveries>>

\* main(): 1) load enabled saved searches
P16_Start(p) ==
  /\ al[p].pc = "idle"
  /\ clock < MaxClock
  /\ clock' = clock + 1
  /\ LET searches == SelectSeq(saved_searches, LAMBDA s : s.is_enabled)
     IN  IF Len(searches) = 0
           THEN al' = [al EXCEPT ![p] = [P16Idle EXCEPT !.run = clock']]
           ELSE al' = [al EXCEPT ![p] = [P16Idle EXCEPT !.run = clock',
                                                       !.pc = "load_jobs",
                                                       !.searches = searches]]
  /\ ahist' = [ahist EXCEPT !.overlaps =
                 @ \cup {{clock', al[o].run} : o \in {x \in AlertProcs :
                                                        x # p /\ al[x].pc # "idle"}}]
  /\ UNCHANGED <<saved_searches, ledger, outbox>>
  /\ P16_Frame
  /\ UNCHANGED notAlert

\* 2) load recent jobs (last 3 days) to match against
P16_LoadJobs(p) ==
  /\ al[p].pc = "load_jobs"
  /\ al' = [al EXCEPT ![p].pc = "loop",
                      ![p].jobs = RecentJobs(catalog, clock - WINDOW_DAYS)]
  /\ UNCHANGED <<clock, saved_searches, ledger, outbox, ahist>>
  /\ P16_Frame
  /\ UNCHANGED notAlert

\* a throw reaches main().catch: process.exit(1)
P16_Crash(p) ==
  /\ Crash(p)
  /\ UNCHANGED <<clock, saved_searches, ledger, outbox, ahist>>
  /\ P16_Frame
  /\ UNCHANGED notAlert

\* if (jErr) throw jErr;
P16_LoadFail(p) ==
  /\ al[p].pc = "load_jobs"
  /\ P16_Crash(p)

\* (jobs || []).filter((j) => matchJobToSearch(j, s)).slice(0, 20)
Matches16(jobs, s) == Limit({j \in jobs : matchJobToSearch(j, s)}, 20)

\* the search of this iteration reaches the ledger query
Queries16(p) ==
  /\ al[p].pc = "loop"
  /\ al[p].idx <= Len(al[p].searches)
  /\ Truthy(al[p].searches[al[p].idx].user_email)
  /\ Matches16(al[p].jobs, al[p].searches[al[p].idx]) # {}

\* 3) match jobs to this search, 4) remove jobs already sent
P16_Select(p) ==
  /\ al[p].pc = "loop"
  /\ al[p].idx <= Len(al[p].searches)
  /\ LET s       == al[p].searches[al[p].idx]
         matches == Matches16(al[p].jobs, s)
         already == {j \in matches :
                       BagIn([saved_search_id |-> s.id, job_id |-> j.fingerprint],
                             ledger)}
         newOnes == matches \ already
     IN  IF Queries16(p) /\ newOnes # {}
           THEN al' = [al EXCEPT ![p].pc = "send", ![p].newOnes = newOnes]
           ELSE al' = [al EXCEPT ![p].idx = @ + 1]
  /\ UNCHANGED <<clock, saved_searches, ledger, outbox, ahist>>
  /\ P16_Frame
  /\ UNCHANGED notAlert

\* if (aErr) throw aErr;
P16_SelectFail(p) ==
  /\ Queries16(p)
  /\ P16_Crash(p)

\* 5) send email
P16_SendOk(p) ==
  /\ al[p].pc = "send"
  /\ LET s == al[p].searches[al[p].idx]
     IN  outbox' = Append(outbox,
            [to |-> s.user_email, subscription |-> s.id, run |-> al[p].run,
             subject |-> Cardinality(al[p].newOnes),
             jobs |-> {j.fingerprint : j \in al[p].newOnes}])
  /\ al' = [al EXCEPT ![p].pc = "record"]
  /\ UNCHANGED <<clock, saved_searches, ledger, ahist>>
  /\ P16_Frame
  /\ UNCHANGED notAlert

\* sendEmail throws
P16_SendFail(p) ==
  /\ al[p].pc = "send"
  /\ P16_Crash(p)

\* const insertRows = newOnes.map(...)
InsertRows16(p) ==
  {[saved_search_id |-> al[p].searches[al[p].idx].id, job_id |-> j.fingerprint] :
     j \in al[p].newOnes}

\* the insert violates the unique index, if the table has one
Conflicts16(p) == ledgerUnique /\ \E r \in InsertRows16(p) : BagIn(r, ledger)

\* 6) record sent rows (dedupe)
P16_Record(p) ==
  /\ al[p].pc = "record"
  /\ ~Conflicts16(p)
  /\ ledger' = ledger (+) SetToBag(InsertRows16(p))
  /\ al' = [al EXCEPT ![p].pc = "mark"]
  /\ UNCHANGED <<clock, saved_searches, outbox, ahist>>
  /\ P16_Frame
  /\ UNCHANGED notAlert

\* if (insErr) throw insErr;
P16_RecordFail(p) ==
  /\ al[p].pc = "record"
  /\ P16_Crash(p)

\* 7) update last_alerted_at; the result of the update is not looked at
P16_Mark(p) ==
  /\ al[p].pc = "mark"
  /\ \E ok \in BOOLEAN :
       saved_searches' =
         IF ok THEN [i \in DOMAIN saved_searches |->
                       IF saved_searches[i].id = al[p].searches[al[p].idx].id
                         THEN [saved_searches[i] EXCEPT !.last_alerted_at = clock]
                         ELSE saved_searches[i]]
               ELSE saved_searches
  /\ al' = [al EXCEPT ![p].pc = "loop", ![p].idx = @ + 1, ![p].newOnes = {}]
  /\ UNCHANGED <<clock, ledger, outbox, ahist>>
  /\ P16_Frame
  /\ UNCHANGED notAlert

\* console.log("Done.")
P16_Finish(p) ==
  /\ al[p].pc = "loop"
  /\ al[p].idx > Len(al[p].searches)
  /\ al' = [al EXCEPT ![p].pc = "idle"]
  /\ UNCHANGED <<clock, saved_searches, ledger, outbox, ahist>>
  /\ P16_Frame
  /\ UNCHANGED notAlert

\* Two alert processes run at the same time.
ConcAlert16Next ==
  \E p \in AlertProcs :
     \/ P16_Start(p)
     \/ P16_LoadJobs(p)
     \/ P16_LoadFail(p)
     \/ P16_Select(p)
     \/ P16_SelectFail(p)
     \/ P16_SendOk(p)
     \/ P16_SendFail(p)
     \/ P16_Record(p)
     \/ P16_RecordFail(p)
     \/ P16_Mark(p)
     \/ P16_Finish(p)

ConcAlert16Spec == Alert16Init /\ [][ConcAlert16Next]_vars

\* One alert process, and syncs between its cycles.
Alert16Next ==
  \/ CatalogChange
  \/ P16_Start(1)
  \/ P16_LoadJobs(1)
  \/ P16_LoadFail(1)
  \/ P16_Select(1)
  \/ P16_SelectFail(1)
  \/ P16_SendOk(1)
  \/ P16_SendFail(1)
  \/ P16_Record(1)
  \/ P16_RecordFail(1)
  \/ P16_Mark(1)
  \/ P16_Finish(1)

Alert16Spec == Alert16Init /\ [][Alert16Next]_vars

\* A board with more open postings than one mail lists: the cycle of part_016
\* over a catalog of up to MaxCrowd jobs, all of them inside the window.
MaxCrowd == 21

DigitChars == <<"0", "1", "2", "3", "4", "5", "6", "7", "8", "9">>

\* the i-th posting of the crowded board, native id "01", "02", ...
CrowdPosting(i) ==
  Posting(<<DigitChars[(i \div 10) + 1], DigitChars[(i % 10) + 1]>>,
          <<"a">>, <<"u">>, 1)

\* the catalog a sync of board "a" leaves when the board lists n postings
CrowdCatalog(n) ==
  MarkStaleInactive(
    UpsertRows(<< >>, BuildRows(sources[1], {CrowdPosting(i) : i \in 1..n}, 1)),
    sources[1], 1)

Crowd16Init ==
  /\ SyncIdleInit
  /\ isActiveDefault = TRUE
  /\ ledgerUnique \in BOOLEAN
  /\ upstream = [s \in Slugs |-> [kind |-> "ok", jobs |-> {}]]
  /\ catalog \in {CrowdCatalog(n) : n \in (MaxCrowd - 2)..MaxCrowd}
  /\ DRY_RUN = FALSE
  /\ subscriptions = << >>
  /\ saved_searches \in SearchTables
  /\ ledger = EmptyBag
  /\ alert_runs = << >>
  /\ alert_deliveries = << >>
  /\ outbox = << >>
  /\ al = [p \in AlertProcs |-> P16Idle]
  /\ ahist = [overlaps |-> {}, changed |-> FALSE]

Crowd16Spec == Crowd16Init /\ [][Alert16Next]_vars

\* ------------------------------------------------------------------------
\* Alert cycle, scripts/run-saved-search-alerts.mjs, version reading
\* saved_searches: window from last_run_at, ledger insert before the send,
\* try/catch around every search
\* ------------------------------------------------------------------------
ALL == <<"A", "L", "L">>

\* column.ilike.%pat% ; a NULL column matches nothing
ILike(job, name, pat) ==
  RawCol(job, name) # Null /\ Includes(ToLower(job[name]), ToLower(pat))

\* the filters the query builder adds to the jobs query
SsQueryMatches(job, filters) ==
  LET q       == Opt(filters, "q")
      company == Opt(filters, "company")
      state   == Opt(filters, "state")
      source  == Opt(filters, "source")
  IN  /\ (Truthy(q) /\ Trim(q) # <<>>) =>
           \E col \in {"title", "company", "location_raw", "location_city",
                       "location_state"} : ILike(job, col, Trim(q))
      /\ (Truthy(company) /\ company # ALL) => ILike(job, "company", company)
      /\ (Truthy(state) /\ state # ALL) => RawCol(job, "location_state") = state
      /\ (Truthy(source) /\ source # ALL) => RawCol(job, "source") = source
      /\ Flag(filters, "remoteOnly") =>
           \E col \in {"location_raw", "location_city", "location_state"} :
              ILike(job, col, REMOTE)
      /\ Flag(filters, "payOnly") => ("has_pay" \in DOMAIN job /\ job.has_pay = TRUE)

\* .eq("is_active", true).gte("posted_at", sinceIso).limit(50) with the filters
SsQuery(cat, since, filters) ==
  Limit({cat[fp] : fp \in {k \in DOMAIN cat :
                             /\ cat[k].is_active
                             /\ cat[k].posted_at >= since
                             /\ SsQueryMatches(cat[k], filters)}}, 50)

\* Rows the table saved_searches may hold.
SsAll ==
  [id |-> 1, name |-> <<"m">>, user_email |-> <<"e">>, filters |-> << >>,
   is_enabled |-> TRUE, last_run_at |-> NoTime]

SsQ == [SsAll EXCEPT !.id = 2, !.name = <<"n">>, !.user_email = <<"f">>,
                     !.filters = [q |-> <<"B">>]]

SsOff == [SsQ EXCEPT !.is_enabled = FALSE]

SsTables == { <<SsAll>>, <<SsAll, SsQ>>, <<SsOff, SsAll>> }

SsIdle ==
  [pc |-> "idle", nowIso |-> 0, searches |-> << >>, idx |-> 1, jobs |-> {},
   newJobs |-> {}, err |-> "none"]   \* err: a ledger insert failed for a
                                     \* reason other than a duplicate

SsInit ==
  /\ SyncIdleInit
  /\ isActiveDefault = TRUE
  /\ ledgerUnique \in BOOLEAN
  /\ upstream = [s \in Slugs |-> [kind |-> "ok", jobs |-> {}]]
  /\ catalog \in AlertCatalogs
  /\ DRY_RUN = FALSE
  /\ subscriptions = << >>
  /\ saved_searches \in SsTables
  /\ ledger = EmptyBag
  /\ alert_runs = << >>
  /\ alert_deliveries = << >>
  /\ outbox = << >>
  /\ al = [p \in AlertProcs |-> SsIdle]
  /\ ahist = [changed |-> FALSE]

SS_Frame ==
  UNCHANGED <<catalog, DRY_RUN, subscriptions, alert_runs, alert_deliveries, ahist>>

\* main(): const nowIso; 1) load enabled searches
SS_Start(p) ==
  /\ al[p].pc = "idle"
  /\ clock < MaxClock
  /\ clock' = clock + 1
  /\ LET searches == SelectSeq(saved_searches, LAMBDA s : s.is_enabled)
     IN  IF Len(searches) = 0
           THEN al' = [al EXCEPT ![p] = [SsIdle EXCEPT !.nowIso = clock']]
           ELSE al' = [al EXCEPT ![p] = [SsIdle EXCEPT !.nowIso = clock',
                                                      !.pc = "query",
                                                      !.searches = searches]]
  /\ UNCHANGED <<saved_searches, ledger, outbox>>
  /\ SS_Frame
  /\ UNCHANGED notAlert

\* const since = s.last_run_at ? ... : now - 24h
SinceOf(s, now) == IF s.last_run_at # NoTime THEN s.last_run_at ELSE now - 1

\* 2) build job query, await q
SS_Query(p) ==
  /\ al[p].pc = "query"
  /\ al[p].idx <= Len(al[p].searches)
  /\ LET s    == al[p].searches[al[p].idx]
         jobs == SsQuery(catalog, SinceOf(s, clock), s.filters)
     IN  al' = [al EXCEPT ![p].pc = IF jobs = {} THEN "mark" ELSE "ledger",
                          ![p].jobs = jobs, ![p].newJobs = {}, ![p].err = "none"]
  /\ UNCHANGED <<clock, saved_searches, ledger, outbox>>
  /\ SS_Frame
  /\ UNCHANGED notAlert

\* catch (e): log, move to the next search
SS_Caught(p) ==
  /\ al' = [al EXCEPT ![p].pc = "query", ![p].idx = @ + 1, ![p].jobs = {},
                      ![p].newJobs = {}, ![p].err = "none"]
  /\ UNCHANGED <<clock, saved_searches, ledger, outbox>>
  /\ SS_Frame
  /\ UNCHANGED notAlert

\* if (jErr) throw jErr;
SS_QueryFail(p) ==
  /\ al[p].pc = "query"
  /\ al[p].idx <= Len(al[p].searches)
  /\ SS_Caught(p)

\* const inserts = jobs.map(...)
SsInserts(p) ==
  {[saved_search_id |-> al[p].searches[al[p].idx].id, job_id |-> j.fingerprint] :
     j \in al[p].jobs}

\* the rows of inserts the unique index, if there is one, rejects
SsDuplicates(p) ==
  IF ledgerUnique THEN {r \in SsInserts(p) : BagIn(r, ledger)} ELSE {}

\* 3) dedupe via saved_search_alerts: the bulk insert, and on its error the
\* inserts one by one, keeping the rows that went in
SS_Ledger(p) ==
  /\ al[p].pc = "ledger"
  /\ \E bulk \in BOOLEAN :
       \E went \in SUBSET (SsInserts(p) \ SsDuplicates(p)) :
          /\ bulk => (SsDuplicates(p) = {} /\ went = SsInserts(p))
          /\ ledger' = ledger (+) SetToBag(went)
          /\ LET newJobs == {j \in al[p].jobs :
                               \E r \in went : r.job_id = j.fingerprint}
             IN  al' = [al EXCEPT
                    ![p].pc = IF newJobs = {} THEN "mark" ELSE "send",
                    ![p].newJobs = newJobs,
                    ![p].err = IF went = SsInserts(p) \ SsDuplicates(p)
                                 THEN "none" ELSE "ledger"]
  /\ UNCHANGED <<clock, saved_searches, outbox>>
  /\ SS_Frame
  /\ UNCHANGED notAlert

\* 4) email: await sendEmail(...); the text lists newJobs.slice(0, 20)
SS_SendOk(p) ==
  /\ al[p].pc = "send"
  /\ LET s == al[p].searches[al[p].idx]
     IN  outbox' = Append(outbox,
            [to |-> s.user_email, subscription |-> s.id, run |-> al[p].nowIso,
             subject |-> <<Cardinality(al[p].newJobs), s.name>>,
             jobs |-> {j.fingerprint : j \in Limit(al[p].newJobs, 20)}])
  /\ al' = [al EXCEPT ![p].pc = "mark"]
  /\ UNCHANGED <<clock, saved_searches, ledger>>
  /\ SS_Frame
  /\ UNCHANGED notAlert

\* sendEmail throws
SS_SendFail(p) ==
  /\ al[p].pc = "send"
  /\ SS_Caught(p)

\* update({ last_run_at: nowIso }).eq("id", s.id) on each of its three paths;
\* the result of the update is not looked at
SS_Mark(p) ==
  /\ al[p].pc = "mark"
  /\ \E ok \in BOOLEAN :
       saved_searches' =
         IF ok THEN [i \in DOMAIN saved_searches |->
                       IF saved_searches[i].id = al[p].searches[al[p].idx].id
                         THEN [saved_searches[i] EXCEPT !.last_run_at = al[p].nowIso]
                         ELSE saved_searches[i]]
               ELSE saved_searches
  /\ al' = [al EXCEPT ![p].pc = "query", ![p].idx = @ + 1, ![p].jobs = {},
                      ![p].newJobs = {}, ![p].err = "none"]
  /\ UNCHANGED <<clock, ledger, outbox>>
  /\ SS_Frame
  /\ UNCHANGED notAlert

\* the loop is over
SS_Finish(p) ==
  /\ al[p].pc = "query"
  /\ al[p].idx > Len(al[p].searches)
  /\ al' = [al EXCEPT ![p].pc = "idle"]
  /\ UNCHANGED <<clock, saved_searches, ledger, outbox>>
  /\ SS_Frame
  /\ UNCHANGED notAlert

SsNext ==
  \/ CatalogChange
  \/ SS_Start(1)
  \/ SS_Query(1)
  \/ SS_QueryFail(1)
  \/ SS_Ledger(1)
  \/ SS_SendOk(1)
  \/ SS_SendFail(1)
  \/ SS_Mark(1)
  \/ SS_Finish(1)

SsSpec == SsInit /\ [][SsNext]_vars

\* ------------------------------------------------------------------------
\* Alert cycle, version of part_017: every saved search is loaded, the
\* filters are columns of the search, the window starts at last_sent_at,
\* nothing is sent yet
\* ------------------------------------------------------------------------
\* a || b
OrElse(a, b) == IF Truthy(a) THEN a ELSE b

\* function normalizeState(s)
normalizeState(s) == IF ~Truthy(s) THEN Null ELSE ToUpper(Trim(s))

\* (s.company || null)?.toString().trim()
TrimOpt(v) == IF ~Truthy(v) THEN Null ELSE Trim(v)

\* the filters added to jobQuery; q is escaped so that ilike takes it
\* literally, which is the substring test of ILike
P17QueryMatches(job, s) ==
  LET state      == normalizeState(OrElse(Opt(s, "state"), Opt(s, "location_state")))
      company    == TrimOpt(Opt(s, "company"))
      source     == TrimOpt(Opt(s, "source"))
      q          == TrimOpt(OrElse(Opt(s, "q"), Opt(s, "query")))
      remoteOnly == Flag(s, "remote_only") \/ Flag(s, "remoteOnly")
      payOnly    == Flag(s, "pay_only") \/ Flag(s, "payOnly")
  IN  /\ (Truthy(state) /\ state # ALL) => RawCol(job, "location_state") = state
      /\ (Truthy(company) /\ company # ALL) => ILike(job, "company", company)
      /\ (Truthy(source) /\ source # ALL) => RawCol(job, "source") = source
      /\ remoteOnly =>
           \E col \in {"location_raw", "location_city", "location_state"} :
              ILike(job, col, REMOTE)
      /\ payOnly => ("has_pay" \in DOMAIN job /\ job.has_pay = TRUE)
      /\ (Truthy(q) /\ Len(q) > 0) =>
           \E col \in {"title", "company", "location_city", "location_state"} :
              ILike(job, col, q)

\* .eq("is_active", true).gt("posted_at", since) ... .limit(20)
P17Query(cat, since, s) ==
  Limit({cat[fp] : fp \in {k \in DOMAIN cat :
                             /\ cat[k].is_active
                             /\ cat[k].posted_at > since
                             /\ P17QueryMatches(cat[k], s)}}, 20)

\* s.email || s.user_email || s.subscriber_email || null
P17Email(s) ==
  OrElse(Opt(s, "email"), OrElse(Opt(s, "user_email"), Opt(s, "subscriber_email")))

\* Rows the table saved_searches may hold.
S17All ==
  [id |-> 1, name |-> <<"m">>, user_email |-> <<"e">>, is_enabled |-> TRUE,
   last_sent_at |-> NoTime]

S17Q ==
  [id |-> 2, name |-> <<"n">>, user_email |-> <<"f">>, is_enabled |-> TRUE,
   last_sent_at |-> NoTime, q |-> <<"B">>]

S17Off == [S17Q EXCEPT !.is_enabled = FALSE, !.q = <<"a">>]

S17NoEmail == [S17Q EXCEPT !.user_email = Null]

S17Tables == { <<S17All>>, <<S17All, S17Q>>, <<S17Off, S17All>>, <<S17NoEmail, S17All>> }

P17Idle == [pc |-> "idle", searches |-> << >>, idx |-> 1, jobs |-> {}]

P17Init ==
  /\ SyncIdleInit
  /\ isActiveDefault = TRUE
  /\ ledgerUnique = TRUE
  /\ upstream = [s \in Slugs |-> [kind |-> "ok", jobs |-> {}]]
  /\ catalog \in AlertCatalogs
  /\ DRY_RUN = FALSE
  /\ subscriptions = << >>
  /\ saved_searches \in S17Tables
  /\ ledger = EmptyBag
  /\ alert_runs = << >>
  /\ alert_deliveries = << >>
  /\ outbox = << >>
  /\ al = [p \in AlertProcs |-> P17Idle]
  /\ ahist = [changed |-> FALSE]

P17_Frame ==
  UNCHANGED <<catalog, DRY_RUN, subscriptions, ledger, alert_runs,
              alert_deliveries, outbox, ahist>>

\* 1) Load saved searches: .from("saved_searches").select("*").limit(5000)
P17_Start(p) ==
  /\ al[p].pc = "idle"
  /\ clock < MaxClock
  /\ clock' = clock + 1
  /\ LET searches == saved_searches
     IN  IF Len(searches) = 0
           THEN al' = [al EXCEPT ![p] = P17Idle]
           ELSE al' = [al EXCEPT ![p] = [P17Idle EXCEPT !.pc = "query",
                                                       !.searches = searches]]
  /\ UNCHANGED saved_searches
  /\ P17_Frame
  /\ UNCHANGED notAlert

\* if (searchErr) { ...; return; }
P17_LoadFail(p) ==
  /\ al[p].pc = "idle"
  /\ clock < MaxClock
  /\ clock' = clock + 1
  /\ UNCHANGED <<al, saved_searches>>
  /\ P17_Frame
  /\ UNCHANGED notAlert

\* Use last_sent_at if present; otherwise use last 24h
Since17(s, now) == IF s.last_sent_at # NoTime THEN s.last_sent_at ELSE now - 1

\* 2) one search: no email, or the job query and its empty result
P17_Query(p) ==
  /\ al[p].pc = "query"
  /\ al[p].idx <= Len(al[p].searches)
  /\ LET s    == al[p].searches[al[p].idx]
         jobs == P17Query(catalog, Since17(s, clock), s)
     IN  IF ~Truthy(P17Email(s)) \/ jobs = {}
           THEN al' = [al EXCEPT ![p].idx = @ + 1]
           ELSE al' = [al EXCEPT ![p].pc = "mark", ![p].jobs = jobs]
  /\ UNCHANGED <<clock, saved_searches>>
  /\ P17_Frame
  /\ UNCHANGED notAlert

\* if (jobsErr) { ...; continue; }
P17_QueryFail(p) ==
  /\ al[p].pc = "query"
  /\ al[p].idx <= Len(al[p].searches)
  /\ Truthy(P17Email(al[p].searches[al[p].idx]))
  /\ al' = [al EXCEPT ![p].idx = @ + 1]
  /\ UNCHANGED <<clock, saved_searches>>
  /\ P17_Frame
  /\ UNCHANGED notAlert

\* 3) Mark last_sent_at; updErr is only logged. 4) no email is sent.
P17_Mark(p) ==
  /\ al[p].pc = "mark"
  /\ \E ok \in BOOLEAN :
       saved_searches' =
         IF ok THEN [i \in DOMAIN saved_searches |->
                       IF saved_searches[i].id = al[p].searches[al[p].idx].id
                         THEN [saved_searches[i] EXCEPT !.last_sent_at = clock]
                         ELSE saved_searches[i]]
               ELSE saved_searches
  /\ al' = [al EXCEPT ![p].pc = "query", ![p].idx = @ + 1, ![p].jobs = {}]
  /\ UNCHANGED clock
  /\ P17_Frame
  /\ UNCHANGED notAlert

\* the loop is over
P17_Finish(p) ==
  /\ al[p].pc = "query"
  /\ al[p].idx > Len(al[p].searches)
  /\ al' = [al EXCEPT ![p].pc = "idle"]
  /\ UNCHANGED <<clock, saved_searches>>
  /\ P17_Frame
  /\ UNCHANGED notAlert

P17Next ==
  \/ CatalogChange
  \/ P17_Start(1)
  \/ P17_LoadFail(1)
  \/ P17_Query(1)
  \/ P17_QueryFail(1)
  \/ P17_Mark(1)
  \/ P17_Finish(1)

P17Spec == P17Init /\ [][P17Next]_vars

\* ------------------------------------------------------------------------
\* The saved-search predicate on its own: each version's matcher applied to
\* one job and one filter drawn from MatchJobs and MatchFilters
\* ------------------------------------------------------------------------
MD == <<"M", "D">>

\* Rows of the table jobs, with the columns the matchers read.
MatchJobs ==
  [title : {<<"a">>}, company : {<<"b">>, <<"c">>},
   location_raw : {Null, <<"x">>, REMOTE}, location_city : {Null, <<"r">>},
   location_state : {Null, MD}, source : {GREENHOUSE},
   description : {Null, <<"d">>}, has_pay : BOOLEAN]

\* Filters a saved search may carry; Null is a field that is not set.
MatchFilters ==
  [q : {Null, <<"B">>, <<"d">>, <<"x">>}, company : {Null, <<"B">>, ALL},
   state : {Null, MD, <<"M">>, ALL}, source : {Null, GREENHOUSE, ALL},
   remote_only : BOOLEAN, pay_only : BOOLEAN]

\* the filters object as the saved_searches version reads it: remoteOnly and
\* payOnly are its keys of the two flags
SsFiltersOf(f) ==
  [q |-> f.q, company |-> f.company, state |-> f.state, source |-> f.source,
   remoteOnly |-> f.remote_only, payOnly |-> f.pay_only]

MatchInit ==
  /\ SyncLocalsInit
  /\ AlertIdleInit
  /\ isActiveDefault = TRUE
  /\ upstream = [s \in Slugs |-> [kind |-> "ok", jobs |-> {}]]
  /\ catalog = << >>
  /\ \E job \in MatchJobs, f \in MatchFilters :
        probe = [job |-> job, f |-> f, fn |-> "none", res |-> FALSE]

MatchFrame == UNCHANGED <<syncVars, fpVars, storeVars, alertVars>>

\* enabledSubs loop: jobMatches(job, filters)
ApplyJobMatches ==
  /\ probe.fn = "none"
  /\ probe' = [probe EXCEPT !.fn = "jobMatches",
                            !.res = jobMatches(probe.job, probe.f)]
  /\ MatchFrame

\* part_016: matchJobToSearch(j, s)
ApplyMatchJobToSearch ==
  /\ probe.fn = "none"
  /\ probe' = [probe EXCEPT !.fn = "matchJobToSearch",
                            !.res = matchJobToSearch(probe.job, probe.f)]
  /\ MatchFrame

\* saved_searches version: the row is in the result of the filtered query
ApplySsQuery ==
  /\ probe.fn = "none"
  /\ probe' = [probe EXCEPT !.fn = "SsQuery",
                            !.res = SsQueryMatches(probe.job, SsFiltersOf(probe.f))]
  /\ MatchFrame

\* part_017: the row is in the result of the filtered query
ApplyP17Query ==
  /\ probe.fn = "none"
  /\ probe' = [probe EXCEPT !.fn = "P17Query",
                            !.res = P17QueryMatches(probe.job, probe.f)]
  /\ MatchFrame

MatchNext ==
  \/ ApplyJobMatches
  \/ ApplyMatchJobToSearch
  \/ ApplySsQuery
  \/ ApplyP17Query

MatchSpec == MatchInit /\ [][MatchNext]_vars

\* ------------------------------------------------------------------------
\* Location parsing on its own: main() computes the location fields of a row
\* from one location text drawn from LocationTexts
\* ------------------------------------------------------------------------
\* parts.join(", ")
JoinComma(parts) ==
  LET RECURSIVE J(_)
      J(i) == IF i > Len(parts) THEN <<>>
              ELSE IF i = Len(parts) THEN parts[i]
              ELSE parts[i] \o <<",", " ">> \o J(i + 1)
  IN  J(1)

\* segments in front of the region: two places, a street and a suite
LocSegments == {<<"B", "a", "r">>, <<"F", "o", "o">>, <<"1", "2", " ", "M", "a", "i", "n">>, <<"S", "u", "i", "t", "e", " ", "4">>}

\* last segments: region codes with and without a postal code, region
\* names, a country code
LocEndings == {<<"T", "X">>, <<"T", "X", " ", "7", "7", "0", "4", "2">>, <<"T", "e", "x", "a", "s", " ", "7", "7", "0", "4", "2">>, <<"A", "r", "k", "a", "n", "s", "a", "s">>, <<"W", "e", "s", "t", " ", "V", "i", "r", "g", "i", "n", "i", "a">>, <<"F", "R">>}

LocPrefixes == UNION {[1..n -> LocSegments] : n \in 0..MaxSegments}

LocationTexts ==
  {JoinComma(p \o <<e>>) : p \in LocPrefixes, e \in LocEndings}
    \cup {JoinComma(p) : p \in LocPrefixes \ {<< >>}}
    \cup {<<"R", "e", "m", "o", "t", "e">>, <<"U", "n", "i", "t", "e", "d", " ", "S", "t", "a", "t", "e", "s">>, <<" ", "B", "a", "r", " ">>, <<"R", "o", "c", "k", "v", "i", "l", "l", "e", ",", " ", "M", "D">>,
          <<"P", "h", "o", "e", "n", "i", "x", ",", " ", "A", "r", "i", "z", "o", "n", "a", ",", " ", "U", "n", "i", "t", "e", "d", " ", "S", "t", "a", "t", "e", "s">>,
          <<"1", "0", "7", "7", "7", " ", "W", "e", "s", "t", "h", "e", "i", "m", "e", "r", " ", "R", "o", "a", "d", ",", " ", "S", "u", "i", "t", "e", " ", "4", "0", "0", ",", " ", "H", "o", "u", "s", "t", "o", "n", ",", " ", "T", "e", "x", "a", "s", " ", "7", "7", "0", "4", "2">>}

NoLocation == [location_raw |-> Null, location_city |-> Null, location_state |-> Null]

LocInit ==
  /\ SyncLocalsInit
  /\ AlertIdleInit
  /\ isActiveDefault = TRUE
  /\ upstream = [s \in Slugs |-> [kind |-> "ok", jobs |-> {}]]
  /\ catalog = << >>
  /\ \E t \in LocationTexts : probe = [text |-> t, fn |-> "none", res |-> NoLocation]

\* main(): locationRaw, parseLocationUS(locationRaw), the three row fields
ParseLocation ==
  /\ probe.fn = "none"
  /\ probe' = [probe EXCEPT !.fn = "parseLocationUS",
                            !.res = LocationFields(probe.text)]
  /\ UNCHANGED <<syncVars, fpVars, storeVars, alertVars>>

LocNext == ParseLocation

LocSpec == LocInit /\ [][LocNext]_vars

\* ------------------------------------------------------------------------
\* End to end: the sync of a board listing two postings, followed by alert
\* cycles of the alert_runs version for one subscription on region MD
\* ------------------------------------------------------------------------
MaintenancePosting ==
  Posting(<<"1">>, <<"M", "a", "i", "n", "t", "e", "n", "a", "n", "c", "e", " ", "T", "e", "c", "h", "n", "i", "c", "i", "a", "n">>,
          <<"u">>, 1)

RockvillePosting ==
  [Posting(<<"2">>, <<"b">>, <<"v">>, 1) EXCEPT
     !.location = <<"R", "o", "c", "k", "v", "i", "l", "l", "e", ",", " ", "M", "D">>]

SubMD == [SubAll EXCEPT !.saved_searches.filters = [state |-> MD]]

E2eInit ==
  /\ SyncIdleInit
  /\ isActiveDefault = TRUE
  /\ upstream = [s \in Slugs |->
                   [kind |-> "ok",
                    jobs |-> IF s = sources[1]
                               THEN {MaintenancePosting, RockvillePosting} ELSE {}]]
  /\ catalog = << >>
  /\ ledgerUnique = TRUE
  /\ DRY_RUN = FALSE
  /\ subscriptions = <<SubMD>>
  /\ saved_searches = << >>
  /\ ledger = {}
  /\ alert_runs = << >>
  /\ alert_deliveries = << >>
  /\ outbox = << >>
  /\ al = [p \in AlertProcs |-> AlertIdle]
  /\ ahist = [deliveriesAtStart |-> 0, outboxAtStart |-> 0, rerun |-> FALSE,
              lastCompleted |-> FALSE, changed |-> FALSE]

\* the sync runs first; the alert cycles follow a finished sync run
SyncFirst == alert_runs = << >>

AlertAfterSync == pc[1] = "idle" /\ runsDone >= 1

E2eNext ==
  \/ SyncFirst /\ SyncStep(1)
  \/ AlertAfterSync /\ AR_Start(1)
  \/ AlertAfterSync /\ AR_LoadSubs(1)
  \/ AlertAfterSync /\ AR_LoadJobs(1)
  \/ AlertAfterSync /\ AR_LoadFail(1)
  \/ AlertAfterSync /\ AR_Iterate(1)
  \/ AlertAfterSync /\ AR_DeliveryFail(1)
  \/ AlertAfterSync /\ AR_SendOk(1)
  \/ AlertAfterSync /\ AR_SendFail(1)
  \/ AlertAfterSync /\ AR_Finish(1)

E2eSpec == E2eInit /\ [][E2eNext]_vars

\* ------------------------------------------------------------------------
\* Properties of the sync
\* ------------------------------------------------------------------------
SameExceptLastSeen(c1, c0) ==
  /\ DOMAIN c1 = DOMAIN c0
  /\ \A fp \in DOMAIN c1 :
        [c1[fp] EXCEPT !.last_seen_at = 0] = [c0[fp] EXCEPT !.last_seen_at = 0]

TwoCleanRunsSameUpstream ==
  /\ pc[1] = "idle"
  /\ runsDone >= 2
  /\ sameUp
  /\ ~wfLast
  /\ ~wfPrev

\* C4: when two runs in sequence read the same upstream data (and no catalog
\* write failed in either), the second run adds no catalog row and leaves
\* every field of every row as the first run left it, last_seen_at excepted.
C4_SyncIdempotent ==
  TwoCleanRunsSameUpstream => SameExceptLastSeen(catalog, snap)

C4_Witness ==
  /\ TwoCleanRunsSameUpstream
  /\ catalog # << >>
  /\ \E fp \in DOMAIN catalog : catalog[fp].last_seen_at # snap[fp].last_seen_at

\* C5: a posting a source upserted in run N and did not list in run N+1 is
\* inactive once run N+1 has swept that source, and stays inactive until
\* some run upserts it again.
C5_AbsentPostingInactive ==
  \A fp \in owed : fp \in DOMAIN catalog /\ ~catalog[fp].is_active

\* The sweep position of process r is reached with its batch committed.
BatchCommitted(r) ==
  \A row \in rows[r] :
     /\ row.fingerprint \in DOMAIN catalog
     /\ catalog[row.fingerprint] = row

Deactivated(fp) ==
  /\ fp \in DOMAIN catalog
  /\ catalog[fp].is_active
  /\ ~catalog'[fp].is_active

\* C10: the sweep of a source runs only with that source's accepted batch
\* committed, and a row is deactivated only by the sweep of its own source
\* and only when its last_seen_at is strictly older than the run timestamp.
C10_SweepAfterCommit ==
  /\ [](pc[1] \in {"sweep", "sweep_empty"} => BatchCommitted(1))
  /\ [][\A fp \in DOMAIN catalog :
           Deactivated(fp) =>
              /\ pc[1] \in {"sweep", "sweep_empty"}
              /\ BatchCommitted(1)
              /\ catalog[fp].source_company = sources[srcIdx[1]]
              /\ catalog[fp].last_seen_at < runIso[1]
              /\ \A row \in rows[1] : row.fingerprint # fp]_vars

C10_Witness ==
  /\ pc[1] = "idle"
  /\ runsDone >= 2
  /\ \E fp \in DOMAIN catalog : ~catalog[fp].is_active
  /\ \E fp \in DOMAIN catalog : catalog[fp].is_active /\ catalog[fp].last_seen_at = clock

\* Fingerprints of the postings the boards list and main() accepts.
UpstreamFingerprints ==
  UNION {Fingerprints(BuildRows(slug, fetchGreenhouseJobs(upstream[slug]), 0)) :
           slug \in {x \in Slugs : ~FetchThrows(upstream[x])}}

\* C7: when two runs with different timestamps have both completed over the
\* same upstream data, whatever their interleaving, every posting the boards
\* list is in the catalog with is_active = true.
C7_OverlapConverges ==
  (runsDone >= 2 /\ \A r \in SyncProcs : pc[r] = "idle")
     => \A fp \in UpstreamFingerprints :
           fp \in DOMAIN catalog /\ catalog[fp].is_active

\* ------------------------------------------------------------------------
\* Properties of the identity key
\* ------------------------------------------------------------------------
\* C8: two accepted postings that differ in their board or in their native
\* id have different fingerprints, and each keeps its own catalog row.
C8_DistinctPostingsDistinctKeys ==
  \A r1, r2 \in built :
     (r1.source_company # r2.source_company \/ r1.source_job_id # r2.source_job_id)
        => /\ r1.fingerprint # r2.fingerprint
           /\ catalog[r1.fingerprint] = r1
           /\ catalog[r2.fingerprint] = r2

\* C9: the fingerprint is determined by the source and the native id, and by
\* the url in place of an absent native id; title, description, location
\* and company do not enter it.
C9_KeyFromSourceAndId ==
  \A r1, r2 \in built :
     (/\ r1.source = r2.source
      /\ r1.source_job_id = r2.source_job_id
      /\ (r1.source_job_id = Null => r1.url = r2.url))
        => r1.fingerprint = r2.fingerprint

C9_Witness ==
  \E r1, r2 \in built :
     /\ r1.source_job_id = r2.source_job_id
     /\ r1.source_job_id # Null
     /\ r1.title # r2.title
     /\ r1.description # r2.description
     /\ r1.location_raw # r2.location_raw
     /\ r1.company # r2.company
     /\ r1.fingerprint = r2.fingerprint

\* C6: between runs, a catalog entry is active only if its posting was
\* upserted by the most recent completed sync of its board (or by a later
\* one that has not completed).
C6_ActiveOnlyIfObserved ==
  (\A r \in SyncProcs : pc[r] = "idle")
     => \A fp \in DOMAIN catalog :
           catalog[fp].is_active => fp \in observed[catalog[fp].company]

\* ------------------------------------------------------------------------
\* Properties of the sync: errors
\* ------------------------------------------------------------------------
\* C11: after the upsert of a source failed in a run, that run does not sweep
\* the source: the failing step leaves the catalog as it is, the sweep
\* position is never reached for that source, and no row of that source is
\* deactivated for the rest of the run.
C11_NoSweepAfterFailedUpsert ==
  /\ [](pc[1] \in {"sweep", "sweep_empty"}
          => sources[srcIdx[1]] \notin shist.upsertFailed)
  /\ [][/\ shist'.upsertFailed \notin {shist.upsertFailed, {}} => catalog' = catalog
        /\ \A fp \in DOMAIN catalog :
              Deactivated(fp) => catalog[fp].source_company \notin shist.upsertFailed]_vars

\* a run ended whose failed upsert left a row the sweep would have deactivated
C11_Witness ==
  /\ pc[1] = "idle"
  /\ \E fp \in DOMAIN catalog :
        /\ catalog[fp].source_company \in shist.upsertFailed
        /\ catalog[fp].is_active
        /\ catalog[fp].last_seen_at < runIso[1]

\* C12: a source whose response has no postings list is skipped for the run:
\* its iteration reaches neither the upsert nor the sweep, and no row of
\* that source is deactivated while the response is malformed.
C12_MalformedSourceSkipped ==
  /\ [](pc[1] \in {"upsert", "sweep", "sweep_empty"}
          => upstream[sources[srcIdx[1]]].kind # "no_jobs_list")
  /\ [][\A fp \in DOMAIN catalog :
          Deactivated(fp)
             => upstream[catalog[fp].source_company].kind # "no_jobs_list"]_vars

\* C13: when a run has ended, every configured source was visited, whatever
\* failed before it, and the error counter equals the number of sources that
\* failed (fetch error, malformed response, catalog write error).
C13_FailuresIsolatedAndCounted ==
  (pc[1] = "idle" /\ runsDone > 0)
     => /\ shist.visited = Slugs
        /\ totalErrors[1] = Cardinality(shist.failed \cup shist.malformed)

\* ------------------------------------------------------------------------
\* Properties of the alert cycle
\* ------------------------------------------------------------------------
\* C1: for every (subscription, job) pair at most one notification ever
\* lists the job for the subscription.
C1_AtMostOneNotificationPerPair ==
  \A i, k \in 1..Len(outbox) :
     (i # k /\ outbox[i].subscription = outbox[k].subscription)
        => outbox[i].jobs \cap outbox[k].jobs = {}

\* C2: a cycle that starts after a completed cycle, with the catalog, the
\* subscriptions and the deliveries unchanged since, creates no delivery and
\* sends no notification.
C2_RerunCreatesNothing ==
  ahist.rerun => /\ Len(alert_deliveries) = ahist.deliveriesAtStart
                 /\ Len(outbox) = ahist.outboxAtStart

\* C3: two alert runs that execute at the same time never both send a
\* notification listing the same job for the same subscription.
C3_ConcurrentRunsSendOnce ==
  \A i, k \in 1..Len(outbox) :
     (/\ i # k
      /\ outbox[i].subscription = outbox[k].subscription
      /\ outbox[i].jobs \cap outbox[k].jobs # {})
        => {outbox[i].run, outbox[k].run} \notin ahist.overlaps

\* C14: an error raised while one subscription is processed does not keep
\* the later enabled subscriptions of the cycle from being processed: the
\* loop is left only at or after the last enabled subscription.
C14_SubscriptionErrorIsolated ==
  [][(al[1].pc \in {"loop", "send"} /\ al'[1].pc = "idle")
        => al[1].idx >= Len(al[1].enabledSubs)]_vars

\* C15: when the processing of a subscription ends with nothing to deliver
\* (no job matched, or every match is in the ledger), the watermark of the
\* subscription is advanced to the time of the run.
C15_WatermarkAdvancedWhenNothingToSend ==
  [][(/\ al[1].pc = "loop"
      /\ al'[1].pc = "loop"
      /\ al'[1].idx = al[1].idx + 1
      /\ Truthy(al[1].searches[al[1].idx].user_email))
        => \E i \in DOMAIN saved_searches :
              /\ saved_searches[i].id = al[1].searches[al[1].idx].id
              /\ saved_searches'[i].last_alerted_at = clock]_vars

\* C16: when the processing of a subscription fails (job query, ledger
\* write or send), the run leaves the watermark of that subscription as it
\* was.
C16_WatermarkKeptOnError ==
  [][/\ (/\ al[1].pc \in {"query", "send"}
         /\ al'[1].pc = "query"
         /\ al'[1].idx = al[1].idx + 1) => saved_searches' = saved_searches
     /\ saved_searches' # saved_searches => al[1].err = "none"]_vars

\* C17: when the sender fails for a delivery, the Delivery Record of that
\* delivery ends with status "failed" (never "sent") and stays in the table.
C17_SendFailureMarksDeliveryFailed ==
  [][(al[1].pc = "send" /\ al'[1].pc = "idle") =>
        /\ Len(alert_deliveries') = Len(alert_deliveries)
        /\ alert_deliveries'[Len(alert_deliveries')].run_id = al[1].runId
        /\ alert_deliveries'[Len(alert_deliveries')].status = "failed"]_vars

\* C18: outside dry-run mode a Delivery Record is created with status
\* "queued", and a record has status "sent" only when its mail has been
\* handed to the sender successfully.
C18_QueuedUntilSent ==
  /\ [][(~DRY_RUN /\ Len(alert_deliveries') > Len(alert_deliveries)) =>
          alert_deliveries'[Len(alert_deliveries')].status = "queued"]_vars
  /\ [](\A i \in 1..Len(alert_deliveries) :
          alert_deliveries[i].status = "sent" =>
            Cardinality({j \in 1..Len(outbox) :
               outbox[j].subscription =
                 alert_deliveries[i].saved_search_alert_id}) >=
            Cardinality({k \in 1..i :
               /\ alert_deliveries[k].status = "sent"
               /\ alert_deliveries[k].saved_search_alert_id =
                    alert_deliveries[i].saved_search_alert_id}))

\* C19: in dry-run mode a cycle never invokes the sender and every Delivery
\* Record it creates has status "dry_run".
C19_DryRunSendsNothing ==
  DRY_RUN =>
    /\ outbox = << >>
    /\ \A p \in AlertProcs : al[p].pc # "send"
    /\ \A i \in 1..Len(alert_deliveries) :
         alert_deliveries[i].status = "dry_run"

\* a dry-run cycle has gone through its loop, created a Delivery Record and
\* written its counters to the Run Record
C19_Witness ==
  /\ DRY_RUN
  /\ al[1].pc = "idle"
  /\ alert_deliveries # << >>
  /\ \E i \in 1..Len(alert_runs) :
       /\ alert_runs[i].dry_run
       /\ alert_runs[i].deliveries_created >= 1
       /\ alert_runs[i].emails_processed >= 1

\* C20: every cycle that created a Run Record has finalized it when the cycle
\* is over, cycles that ended with an error included, and a finalized Run
\* Record is never modified afterwards.
C20_RunRecordFinalizedOnce ==
  /\ [](al[1].pc = "idle" =>
          \A i \in 1..Len(alert_runs) : alert_runs[i].finished_at # NoTime)
  /\ [][\A i \in 1..Len(alert_runs) :
          alert_runs[i].finished_at # NoTime =>
            alert_runs'[i] = alert_runs[i]]_vars

IsSet(v) == v # Null /\ v # << >> /\ v # ALL

\* the job agrees with every set field of the filter
Agrees(job, f) ==
  /\ IsSet(f.state) => job.location_state = f.state
  /\ IsSet(f.company) => Includes(ToLower(Col(job, "company")), ToLower(f.company))
  /\ IsSet(f.source) => job.source = f.source
  /\ IsSet(f.q) =>
       Includes(ToLower(JoinSpace(<<Col(job, "title"), Col(job, "company"),
                                    Col(job, "location_raw"),
                                    Col(job, "location_city"),
                                    Col(job, "location_state")>>)), ToLower(f.q))
  /\ f.remote_only =>
       \E col \in {"location_raw", "location_city", "location_state"} :
          Includes(ToLower(Col(job, col)), REMOTE)
  /\ f.pay_only => job.has_pay

\* C22: matches(J, F) is true iff every explicitly set field of F agrees
\* with J (region exact, company substring, source exact, free-text
\* substring, remote-only, pay-only by has_pay), combined with AND; a filter
\* with no field set matches every job.
C22_MatchesIffEveryFieldAgrees ==
  probe.fn \in {"jobMatches", "matchJobToSearch"} =>
    (probe.res <=> Agrees(probe.job, probe.f))

\* the matcher of the version that was applied
MatcherOf(fn, job, f) ==
  CASE fn = "jobMatches"       -> jobMatches(job, f)
    [] fn = "matchJobToSearch" -> matchJobToSearch(job, f)
    [] fn = "SsQuery"          -> SsQueryMatches(job, SsFiltersOf(f))
    [] fn = "P17Query"         -> P17QueryMatches(job, f)

\* C23: a company, region or source field whose value is "ALL" behaves like
\* an unset field: the match result is the one of the same filter with that
\* field left unset.
C23_AllIsUnset ==
  probe.fn \in {"jobMatches", "matchJobToSearch", "SsQuery"} =>
    \A c \in {"company", "state", "source"} :
       probe.f[c] = ALL =>
         probe.res = MatcherOf(probe.fn, probe.job, [probe.f EXCEPT ![c] = Null])

\* the filter sets the free-text query and nothing else
OnlyQuery(f) ==
  /\ f.q # Null
  /\ f.company = Null /\ f.state = Null /\ f.source = Null
  /\ ~f.remote_only /\ ~f.pay_only

\* C24: the free-text query matches a job iff it is a case-insensitive
\* substring of the concatenation of the job's title, company and location
\* fields (raw, city, region); the description plays no part.
C24_QueryOverTitleCompanyLocation ==
  (probe.fn \in {"jobMatches", "matchJobToSearch", "P17Query"} /\ OnlyQuery(probe.f)) =>
    (probe.res <=>
       Includes(ToLower(JoinSpace(<<Col(probe.job, "title"),
                                    Col(probe.job, "company"),
                                    Col(probe.job, "location_raw"),
                                    Col(probe.job, "location_city"),
                                    Col(probe.job, "location_state")>>)),
                ToLower(probe.f.q)))

\* ------------------------------------------------------------------------
\* Properties of the title filter
\* ------------------------------------------------------------------------
\* postings of the boards whose title contains an exclusion keyword
KeywordPostings(slug) ==
  {j \in upstream[slug].jobs : shouldExcludeTitle(j.title)}

\* a run over every board has ended
RunOver == pc[1] = "idle" /\ runsDone >= 1

\* sum of f over the boards
RECURSIVE SumOver(_, _)
SumOver(f, S) ==
  IF S = {} THEN 0
  ELSE LET x == CHOOSE y \in S : TRUE IN f[x] + SumOver(f, S \ {x})

\* C25 as stated: no catalog row carries a title with an exclusion keyword,
\* and a run counts every listed posting whose title contains one.
C25_ExcludedCountedNotStored ==
  /\ \A fp \in DOMAIN catalog : ~shouldExcludeTitle(catalog[fp].title)
  /\ RunOver =>
       totalSkipped[1] =
         SumOver([slug \in Slugs |-> Cardinality(KeywordPostings(slug))], Slugs)

\* C25 for the postings main() looks at: no catalog row carries a title with
\* an exclusion keyword, and a run counts every listed posting that has a
\* title and a url and whose title contains an exclusion keyword.
C25_ValidExcludedCountedNotStored ==
  /\ \A fp \in DOMAIN catalog : ~shouldExcludeTitle(catalog[fp].title)
  /\ RunOver =>
       totalSkipped[1] =
         SumOver([slug \in Slugs |->
                    Cardinality(KeywordPostings(slug) \cap Valid(upstream[slug].jobs))],
                 Slugs)

\* both boards listed the posting titled "Unit" next to an accepted one
C25_Witness ==
  /\ RunOver
  /\ totalSkipped[1] = 2
  /\ catalog # << >>
  /\ \A slug \in Slugs : {F1, F2} \subseteq upstream[slug].jobs

\* ------------------------------------------------------------------------
\* Properties of the location parsing
\* ------------------------------------------------------------------------
Parsed == probe.fn = "parseLocationUS"

IsRemote(text) == Includes(ToLower(text), REMOTE)

\* region names that occur in the text
NamesIn(text) ==
  {e \in 1..Len(STATE_NAME_TO_ABBR) :
      Includes(ToLower(text), STATE_NAME_TO_ABBR[e].name)}

\* the text holds a region code as a word of its own
CodesIn(text) == {a \in STATE_ABBRS : HasToken(text, a)}

\* C26: when no region can be determined from a location text (no region
\* code, no full region name), parsing returns null for city and region and
\* the raw text is stored unmodified.
C26_NoRegionNoCity ==
  (/\ Parsed
   /\ ~IsRemote(probe.text)
   /\ CodesIn(probe.text) = {}
   /\ NamesIn(probe.text) = {}) =>
     /\ probe.res.location_city = Null
     /\ probe.res.location_state = Null
     /\ probe.res.location_raw = probe.text

\* C27: with the region segment of a comma-delimited text located, the city
\* is the nearest segment in front of it that does not look like a street
\* address, and null when every segment in front of it looks like one.
C27_CityIsNearestNonAddress ==
  (/\ Parsed
   /\ ~IsRemote(probe.text)
   /\ Len(Parts(probe.text)) >= 2
   /\ probe.res.location_state # Null
   /\ StateIdx(Parts(probe.text), probe.res.location_state) >= 1) =>
     LET parts == Parts(probe.text)
         idx   == StateIdx(parts, probe.res.location_state)
         C     == {k \in 1..(idx - 1) : ~looksLikeStreetAddress(parts[k])}
     IN  probe.res.location_city =
           IF C = {} THEN Null
           ELSE parts[CHOOSE k \in C : \A j \in C : j <= k]

\* C29: a text without a 2-letter region code that contains a full region
\* name gets the code of the longest region name occurring in it.
C29_LongestRegionName ==
  (/\ Parsed
   /\ ~IsRemote(probe.text)
   /\ CodesIn(probe.text) = {}
   /\ NamesIn(probe.text) # {}) =>
     \A e \in NamesIn(probe.text) :
        (\A o \in NamesIn(probe.text) \ {e} :
            Len(STATE_NAME_TO_ABBR[o].name) < Len(STATE_NAME_TO_ABBR[e].name)) =>
          probe.res.location_state = STATE_NAME_TO_ABBR[e].abbr

\* ------------------------------------------------------------------------
\* End to end
\* ------------------------------------------------------------------------
\* the catalog holds the Rockville posting, active
RockvilleActive ==
  \E fp \in DOMAIN catalog :
     catalog[fp].source_job_id = <<"2">> /\ catalog[fp].is_active

\* an alert cycle has run to its end
CycleCompleted == al[1].pc = "idle" /\ ahist.lastCompleted

\* C28: of the postings "Maintenance Technician" and "Rockville, MD" only the
\* second is ingested, with region MD; the first alert cycle gives the
\* subscription on region MD exactly one queued delivery with that job; a
\* second cycle with nothing new creates no delivery.
C28_EndToEnd ==
  /\ \A fp \in DOMAIN catalog :
        /\ catalog[fp].source_job_id = <<"2">>
        /\ catalog[fp].location_state = MD
  /\ (CycleCompleted /\ Len(alert_runs) = 1 /\ RockvilleActive) =>
        /\ Len(alert_deliveries) = 1
        /\ alert_deliveries[1].saved_search_alert_id = SubMD.id
        /\ alert_deliveries[1].matched_count = 1
        /\ alert_deliveries[1].status = "queued"
  /\ (CycleCompleted /\ ahist.rerun) =>
        Len(alert_deliveries) = ahist.deliveriesAtStart

\* C30: a notification for a (subscription, job) pair is handed to the
\* sender only after the ledger entry of the pair has been written: every
\* job listed in a sent mail is in the ledger for the mail's subscription.
C30_LedgerBeforeSend ==
  \A m \in 1..Len(outbox) :
     \A job \in outbox[m].jobs :
        BagIn([saved_search_id |-> outbox[m].subscription, job_id |-> job], ledger)

\* C31: no matching job is skipped by a watermark advance. Whenever the cycle
\* advances the watermark of a search (its processing went through without
\* error), every active job that matches the search and lies inside the
\* window of the run is then in the ledger for that search, however many
\* jobs matched.
InWindow16(job) == job.is_active /\ job.posted_at >= al[1].run - WINDOW_DAYS

C31_NoMatchSkippedByWatermark ==
  [][\A i \in DOMAIN saved_searches :
       saved_searches'[i].last_alerted_at # saved_searches[i].last_alerted_at =>
         \A fp \in DOMAIN catalog :
            (InWindow16(catalog[fp]) /\ matchJobToSearch(catalog[fp], saved_searches[i]))
              => BagIn([saved_search_id |-> saved_searches[i].id, job_id |-> fp],
                       ledger')]_vars

====
